---- MODULE Spec2Model ----
(***************************************************************************)
(* Model of the wavefst value-change engine: the incremental writer        *)
(* (src/src/writer/mod.rs), the block encoders (src/src/block/vc.rs) and   *)
(* the block reader and change iterator (src/src/reader/vc.rs,             *)
(* src/src/reader/change.rs).                                              *)
(*                                                                         *)
(* Bytes are integers 0..255 and byte strings are sequences of them.       *)
(* Characters are their ASCII codes.  A u64 that is written big-endian is  *)
(* kept as a number and serialised by U64BE.  An f64 is kept as the eight  *)
(* bytes of its bit pattern, most significant first.  An Option<T> is a    *)
(* sequence of length 0 (None) or 1 (Some).                                *)
(***************************************************************************)
EXTENDS Integers, Sequences, FiniteSets, TLC

\* ------------------------------------------------------------------ bounds
MaxHandles == 3
MaxScopes == 1
MaxChanges == 2
MaxTime == 1

\* ------------------------------------------------------- sequence helpers
Last(s) == s[Len(s)]

Front(s) == SubSeq(s, 1, Len(s) - 1)

Range(s) == {s[i] : i \in 1..Len(s)}

Reverse(s) == [i \in 1..Len(s) |-> s[Len(s) + 1 - i]]

Repeat(b, n) == [i \in 1..n |-> b]

RECURSIVE Concat(_)
Concat(ss) == IF ss = <<>> THEN <<>> ELSE Head(ss) \o Concat(Tail(ss))

RECURSIVE IndicesFrom(_, _)
\* the indices i..Len(flags) at which flags holds, ascending: the order a for loop
\* over a vector pushes the elements that pass its test
IndicesFrom(flags, i) ==
    IF i > Len(flags) THEN <<>>
    ELSE (IF flags[i] THEN <<i>> ELSE <<>>) \o IndicesFrom(flags, i + 1)

None == <<>>

Some(x) == <<x>>

\* ------------------------------------------------------------ bit helpers
RECURSIVE Pow2(_)
Pow2(n) == IF n = 0 THEN 1 ELSE 2 * Pow2(n - 1)

Shl(v, n) == v * Pow2(n)

Shr(v, n) == v \div Pow2(n)

BitAt(byte, bit_index) == Shr(byte, bit_index) % 2

\* ------------------------------------------- encoding/varint.rs (LEB128)
RECURSIVE encode_varint(_)
encode_varint(value) ==
    IF value \div 128 # 0
    THEN <<(value % 128) + 128>> \o encode_varint(value \div 128)
    ELSE <<value % 128>>

RECURSIVE DecodeVarintFrom(_, _, _)
\* the loop of decode_varint_with_len from byte i (0-based) with value acc
DecodeVarintFrom(input, i, acc) ==
    IF i >= 10 THEN [ok |-> FALSE, value |-> 0, consumed |-> 0]
    ELSE IF i >= Len(input) THEN [ok |-> FALSE, value |-> 0, consumed |-> 0]
    ELSE LET byte == input[i + 1]
             v == acc + Shl(byte % 128, i * 7)
         IN  IF byte < 128 THEN [ok |-> TRUE, value |-> v, consumed |-> i + 1]
             ELSE DecodeVarintFrom(input, i + 1, v)

decode_varint_with_len(input) == DecodeVarintFrom(input, 0, 0)

RECURSIVE U64BEFrom(_, _)
U64BEFrom(v, n) == IF n = 0 THEN <<>> ELSE U64BEFrom(v \div 256, n - 1) \o <<v % 256>>

\* u64::to_be_bytes
U64BE(v) == U64BEFrom(v, 8)

RECURSIVE FromBE(_, _)
FromBE(bytes, acc) ==
    IF bytes = <<>> THEN acc ELSE FromBE(Tail(bytes), acc * 256 + Head(bytes))

\* u64::from_be_bytes
U64FromBE(bytes) == FromBE(bytes, 0)

\* ------------------------------------------------ block/geom.rs GeomEntry
Fixed(n) == [k |-> "Fixed", n |-> n]

Real == [k |-> "Real", n |-> 0]

Variable == [k |-> "Variable", n |-> 0]

\* --------------------------------------------- types/value.rs SignalValue
Bit(c) == [k |-> "Bit", w |-> 0, d |-> <<c>>]

Vector(text) == [k |-> "Vector", w |-> 0, d |-> text]

PackedBits(width, bits) == [k |-> "PackedBits", w |-> width, d |-> bits]

RealValue(bits) == [k |-> "Real", w |-> 0, d |-> bits]

Bytes(b) == [k |-> "Bytes", w |-> 0, d |-> b]

\* -------------------------------------------------- writer/mod.rs values
\* b"xzhuwl-?"
SPECIAL_BIT_CHARS == <<120, 122, 104, 117, 119, 108, 45, 63>>

Zero == [t |-> "Zero", index |-> 0]

One == [t |-> "One", index |-> 0]

Special(index) == [t |-> "Special", index |-> index]

OwnedBit(bit) == [k |-> "Bit", bit |-> bit, width |-> 0, data |-> <<>>, packed |-> None]

OwnedVector(width, data, packed) ==
    [k |-> "Vector", bit |-> Zero, width |-> width, data |-> data, packed |-> packed]

OwnedReal(bits) == [k |-> "Real", bit |-> Zero, width |-> 0, data |-> bits, packed |-> None]

OwnedVarLen(b) == [k |-> "VarLen", bit |-> Zero, width |-> 0, data |-> b, packed |-> None]

Ok(v) == [ok |-> TRUE, v |-> v, err |-> ""]

Err(e) == [ok |-> FALSE, v |-> 0, err |-> e]

\* a panic that unwinds out of the call: no Result is returned to the caller
Panic(e) == [ok |-> FALSE, v |-> 0, err |-> e, panic |-> TRUE]

IsPanic(r) == "panic" \in DOMAIN r

to_ascii_lowercase(ch) == IF ch >= 65 /\ ch <= 90 THEN ch + 32 ELSE ch

\* BitValue::from_char
from_char(ch) ==
    IF ch = 48 THEN Ok(Zero)
    ELSE IF ch = 49 THEN Ok(One)
    ELSE LET canonical == to_ascii_lowercase(ch)
             hits == {i \in 1..Len(SPECIAL_BIT_CHARS) : SPECIAL_BIT_CHARS[i] = canonical}
         IN  IF hits = {} THEN Err("bit state is not supported for writing")
             ELSE Ok(Special((CHOOSE i \in hits : \A j \in hits : i <= j) - 1))

\* BitValue::encode_marker
encode_marker(bit, delta) ==
    IF bit.t = "Zero" THEN Shl(delta, 2)
    ELSE IF bit.t = "One" THEN Shl(delta, 2) + 2
    ELSE Shl(delta, 4) + 1 + Shl(bit.index, 1)

\* BitValue::to_char
to_char(bit) ==
    IF bit.t = "Zero" THEN 48
    ELSE IF bit.t = "One" THEN 49
    ELSE SPECIAL_BIT_CHARS[bit.index + 1]

\* width.div_ceil(8).max(1)
packed_len(width) ==
    LET c == (width + 7) \div 8 IN IF c < 1 THEN 1 ELSE c

RECURSIVE PackedByteFrom(_, _, _)
\* the |= 1 << bit_index loop of pack_ascii_bits_scalar, for one output byte
PackedByteFrom(data, byte_index, idx) ==
    IF idx >= Len(data) THEN 0
    ELSE (IF idx \div 8 = byte_index /\ data[idx + 1] = 49 THEN Pow2(7 - (idx % 8)) ELSE 0)
         + PackedByteFrom(data, byte_index, idx + 1)

PackedByte(data, byte_index) == PackedByteFrom(data, byte_index, 0)

\* an encoder that never packs
never_packed(data, width) == None

\* pack_ascii_bits / pack_ascii_bits_scalar: None unless every byte is '0' or '1'
pack_ascii_bits(data, width) ==
    LET len == packed_len(width) IN
    IF \E i \in 1..Len(data) : data[i] # 48 /\ data[i] # 49 THEN None
    ELSE Some([b \in 1..len |-> PackedByte(data, b - 1)])

\* normalize_packed_bits
normalize_packed_bits(width, bits) ==
    LET len == packed_len(width) IN
    IF Len(bits) < len THEN Err("packed bit payload shorter than required length")
    ELSE LET out == SubSeq(bits, 1, len)
             remainder == width % 8
             masked == IF remainder # 0
                       THEN [out EXCEPT ![len] =
                               (out[len] \div Pow2(8 - remainder)) * Pow2(8 - remainder)]
                       ELSE out
         IN  IF Len(bits) > len /\ \E i \in (len + 1)..Len(bits) : bits[i] # 0
             THEN Err("packed bit payload longer than required length")
             ELSE Ok(masked)

\* unpack_packed_bits
unpack_packed_bits(width, bits) ==
    LET len == packed_len(width) IN
    IF Len(bits) < len THEN Err("packed bit payload shorter than required length")
    ELSE Ok([i \in 1..width |->
              IF BitAt(bits[((i - 1) \div 8) + 1], 7 - ((i - 1) % 8)) = 1 THEN 49 ELSE 48])

BitResult(r) == IF r.ok THEN Ok(OwnedBit(r.v)) ELSE r

\* FstWriter::convert_value
convert_value(value, geom) ==
    IF geom.k = "Fixed" /\ geom.n = 1 THEN
        IF value.k = "Bit" THEN BitResult(from_char(value.d[1]))
        ELSE IF value.k = "Vector" /\ Len(value.d) = 1 THEN BitResult(from_char(value.d[1]))
        ELSE IF value.k = "Bytes" /\ Len(value.d) = 1 THEN BitResult(from_char(value.d[1]))
        ELSE IF value.k = "PackedBits" /\ value.w = 1 THEN
            IF value.d = <<>> THEN Err("packed bit payload is empty")
            ELSE BitResult(from_char(IF value.d[1] >= 128 THEN 49 ELSE 48))
        ELSE Err("value type is not compatible with single-bit geometry")
    ELSE IF geom.k = "Fixed" THEN
        IF geom.n = 0 THEN Err("zero-width fixed geometry encountered")
        ELSE IF value.k = "Vector" THEN
            IF Len(value.d) # geom.n
            THEN Err("vector value length does not match geometry width")
            ELSE Ok(OwnedVector(geom.n, value.d, pack_ascii_bits(value.d, geom.n)))
        ELSE IF value.k = "Bytes" THEN
            IF Len(value.d) # geom.n
            THEN Err("byte value length does not match geometry width")
            ELSE Ok(OwnedVector(geom.n, value.d, pack_ascii_bits(value.d, geom.n)))
        ELSE IF value.k = "PackedBits" THEN
            IF value.w # geom.n
            THEN Err("packed bit vector width does not match geometry width")
            ELSE LET normalized == normalize_packed_bits(geom.n, value.d) IN
                 IF ~normalized.ok THEN normalized
                 ELSE LET unpacked == unpack_packed_bits(geom.n, normalized.v) IN
                      IF ~unpacked.ok THEN unpacked
                      ELSE Ok(OwnedVector(geom.n, unpacked.v, Some(normalized.v)))
        ELSE Err("value type is not yet supported for fixed-width vectors")
    ELSE IF geom.k = "Real" THEN
        IF value.k = "Real" THEN Ok(OwnedReal(value.d))
        ELSE IF value.k = "Bytes" THEN
            IF Len(value.d) # 8 THEN Err("real signal expects 8 bytes")
            ELSE Ok(OwnedReal(Reverse(value.d)))
        ELSE Err("value type is not compatible with real-valued geometry")
    ELSE
        IF value.k = "Bytes" THEN Ok(OwnedVarLen(value.d))
        ELSE IF value.k = "Vector" THEN Ok(OwnedVarLen(value.d))
        ELSE IF value.k = "Bit" THEN Ok(OwnedVarLen(value.d))
        ELSE Err("value type is not compatible with variable-length geometry")

\* ---------------------------------------------- writer/mod.rs FrameState
FrameNone == [k |-> "None", bit |-> Zero, data |-> <<>>]

FrameBit(bit) == [k |-> "Bit", bit |-> bit, data |-> <<>>]

FrameVector(data) == [k |-> "Vector", bit |-> Zero, data |-> data]

FrameReal(bits) == [k |-> "Real", bit |-> Zero, data |-> bits]

\* f64::NAN, bit pattern 0x7ff8000000000000
NAN == <<127, 248, 0, 0, 0, 0, 0, 0>>

\* Vec::resize(len, None) when the vector is shorter than len
ResizeEntries(entries, len) ==
    IF Len(entries) < len THEN entries \o Repeat(FrameNone, len - Len(entries)) ELSE entries

\* FrameState::register_handle
register_handle(entries, handle, geom) ==
    LET e == ResizeEntries(entries, handle) IN
    IF geom.k = "Fixed" /\ geom.n = 1 THEN e
    ELSE IF geom.k = "Fixed" THEN
        IF e[handle].k = "None"
        THEN [e EXCEPT ![handle] = FrameVector(Repeat(120, geom.n))] ELSE e
    ELSE IF geom.k = "Real" THEN
        IF e[handle].k = "None" THEN [e EXCEPT ![handle] = FrameReal(NAN)] ELSE e
    ELSE e

\* the slot FrameState::update stores for a value; VarLen leaves the slot
SlotAfterUpdate(slot, value) ==
    IF value.k = "Bit" THEN FrameBit(value.bit)
    ELSE IF value.k = "Vector" THEN FrameVector(value.data)
    ELSE IF value.k = "Real" THEN FrameReal(value.data)
    ELSE slot

\* an update that leaves the stored slot as it was
update_skipped(entries, handle, value) == ResizeEntries(entries, handle)

\* FrameState::update
update(entries, handle, value) ==
    LET e == ResizeEntries(entries, handle) IN
    [e EXCEPT ![handle] = SlotAfterUpdate(e[handle], value)]

\* FrameState::clone_from
clone_from(entries, source, target) ==
    LET e == IF Len(entries) <= target - 1 THEN ResizeEntries(entries, target) ELSE entries
        value == IF source <= Len(e) THEN e[source] ELSE FrameNone
    IN  [e EXCEPT ![target] = value]

\* FrameValue::as_bit_char
as_bit_char(slot) == IF slot.k = "Bit" THEN to_char(slot.bit) ELSE 120

\* the bytes build_frame_bytes pushes for handle idx + 1
FrameBytesOf(entries, geom, h) ==
    LET slot == IF h <= Len(entries) THEN entries[h] ELSE FrameNone IN
    IF geom.k = "Fixed" /\ geom.n = 1 THEN
        IF slot.k = "None" THEN <<120>> ELSE <<as_bit_char(slot)>>
    ELSE IF geom.k = "Fixed" THEN
        IF slot.k = "Vector" /\ Len(slot.data) = geom.n THEN slot.data
        ELSE Repeat(120, geom.n)
    ELSE IF geom.k = "Real" THEN
        Reverse(IF slot.k = "Real" THEN slot.data ELSE NAN)
    ELSE <<>>

\* FrameState::build_frame_bytes
build_frame_bytes(entries, geometry, max_handle) ==
    Concat([h \in 1..max_handle |-> FrameBytesOf(entries, geometry[h], h)])

\* ------------------------------------------------------ block/vc.rs codecs
\* zlib_compress: flate2 is outside the repository.  It is modelled as a
\* lossless codec that shortens runs of three or more equal bytes to
\* <<length, byte>> and lengthens every other input by a one-byte prefix,
\* so both the "compressed is smaller" and the "keep raw" branches occur.
zlib_compress(input) ==
    IF Len(input) >= 3 /\ \A i \in 1..Len(input) : input[i] = input[1]
    THEN <<Len(input), input[1]>>
    ELSE <<0>> \o input

\* ZlibDecoder::read_to_end for the codec above
zlib_decompress(input) ==
    IF input = <<>> THEN Err("corrupt deflate stream")
    ELSE IF input[1] = 0 THEN Ok(Tail(input))
    ELSE IF Len(input) = 2 THEN Ok(Repeat(input[2], input[1]))
    ELSE Err("corrupt deflate stream")

\* encode_frame_section (gzip feature enabled)
encode_frame_section(frame_raw) ==
    LET compressed == zlib_compress(frame_raw) IN
    IF frame_raw = <<>>
    THEN [payload |-> <<>>, uncompressed_len |-> 0, compressed_len |-> 0]
    ELSE IF Len(compressed) < Len(frame_raw)
    THEN [payload |-> compressed, uncompressed_len |-> Len(frame_raw),
          compressed_len |-> Len(compressed)]
    ELSE [payload |-> frame_raw, uncompressed_len |-> Len(frame_raw),
          compressed_len |-> Len(frame_raw)]

\* encode_time_section
encode_time_section(time_raw, item_count, compress) ==
    LET compressed == zlib_compress(time_raw) IN
    IF time_raw = <<>>
    THEN [payload |-> <<>>, uncompressed_len |-> 0, compressed_len |-> 0,
          item_count |-> item_count]
    ELSE IF compress /\ Len(compressed) < Len(time_raw)
    THEN [payload |-> compressed, uncompressed_len |-> Len(time_raw),
          compressed_len |-> Len(compressed), item_count |-> item_count]
    ELSE [payload |-> time_raw, uncompressed_len |-> Len(time_raw),
          compressed_len |-> Len(time_raw), item_count |-> item_count]

\* an encoder that keeps the compressed bytes whatever their length
always_compressed(pack_type, data) ==
    [stored_len |-> Len(data), bytes |-> zlib_compress(data)]

\* encode_chain_payload: (stored_len, bytes); of the codecs only zlib is modelled
encode_chain_payload(pack_type, data) ==
    IF data = <<>> THEN [stored_len |-> 0, bytes |-> data]
    ELSE IF pack_type = "None" THEN [stored_len |-> 0, bytes |-> data]
    ELSE LET compressed == zlib_compress(data) IN
         IF Len(compressed) < Len(data)
         THEN [stored_len |-> Len(data), bytes |-> compressed]
         ELSE [stored_len |-> 0, bytes |-> data]

\* PackType::marker: 0, 'Z', 'F', '4'
pack_marker(pack_type) ==
    IF pack_type = "None" THEN 0
    ELSE IF pack_type = "Zlib" THEN 90
    ELSE IF pack_type = "FastLz" THEN 70
    ELSE 52

\* PackType::from_marker: 0, 'Z' | '!' | '^', '4', 'F'
from_marker(marker) ==
    IF marker = 0 THEN Some("None")
    ELSE IF marker = 90 \/ marker = 33 \/ marker = 94 THEN Some("Zlib")
    ELSE IF marker = 52 THEN Some("Lz4")
    ELSE IF marker = 70 THEN Some("FastLz")
    ELSE None

\* ChainIndexEntry
EntryEmpty == [k |-> "Empty", offset |-> 0, target |-> 0]

EntryData(offset) == [k |-> "Data", offset |-> offset, target |-> 0]

EntryAlias(target) == [k |-> "Alias", offset |-> 0, target |-> target]

EmptyRunBytes(empty_run) == IF empty_run > 0 THEN encode_varint(Shl(empty_run, 1)) ELSE <<>>

RECURSIVE EncodeIndexFrom(_, _, _, _, _, _)
\* the loop of encode_chain_index from entry i
EncodeIndexFrom(entries, i, empty_run, last_offset, seen_data, index_bytes) ==
    IF i > Len(entries) THEN Ok(index_bytes \o EmptyRunBytes(empty_run))
    ELSE LET entry == entries[i] IN
         IF entry.k = "Empty"
         THEN EncodeIndexFrom(entries, i + 1, empty_run + 1, last_offset, seen_data,
                              index_bytes)
         ELSE IF entry.k = "Data"
         THEN LET absolute == 1 + entry.offset IN
              IF seen_data /\ absolute < last_offset
              THEN Err("chain offsets must be non-decreasing")
              ELSE LET delta == IF seen_data THEN absolute - last_offset ELSE absolute IN
                   EncodeIndexFrom(entries, i + 1, 0, absolute, TRUE,
                       index_bytes \o EmptyRunBytes(empty_run)
                                   \o encode_varint(Shl(delta, 1) + 1))
         ELSE IF entry.target = 0
         THEN Err("alias handle must be greater than zero")
         ELSE EncodeIndexFrom(entries, i + 1, 0, last_offset, seen_data,
                  index_bytes \o EmptyRunBytes(empty_run)
                              \o encode_varint(0) \o encode_varint(entry.target))

\* encode_chain_index
encode_chain_index(entries) == EncodeIndexFrom(entries, 1, 0, 0, FALSE, <<>>)

\* ------------------------------------- writer/mod.rs build_vc_block
PendingChange(timestamp, handle, value) ==
    [timestamp |-> timestamp, handle |-> handle, value |-> value]

\* the comparison of a sort that puts equal keys in reverse call order
ChangeLT(a, b) ==
    a.timestamp < b.timestamp \/ (a.timestamp = b.timestamp /\ a.handle < b.handle)

\* a.timestamp.cmp(&b.timestamp).then(a.handle.cmp(&b.handle)) is not Greater
ChangeLE(a, b) ==
    a.timestamp < b.timestamp \/ (a.timestamp = b.timestamp /\ a.handle <= b.handle)

RECURSIVE InsertSorted(_, _)
InsertSorted(sorted, c) ==
    IF sorted = <<>> THEN <<c>>
    ELSE IF ChangeLE(Last(sorted), c) THEN Append(sorted, c)
    ELSE Append(InsertSorted(Front(sorted), c), Last(sorted))

RECURSIVE sort_changes(_)
\* changes.sort_by(..): a stable sort by (timestamp, handle)
sort_changes(changes) ==
    IF changes = <<>> THEN <<>>
    ELSE InsertSorted(sort_changes(Front(changes)), Last(changes))

RECURSIVE TimePointsFrom(_, _, _)
TimePointsFrom(changes, i, acc) ==
    IF i > Len(changes) THEN acc
    ELSE IF acc # <<>> /\ Last(acc) = changes[i].timestamp
    THEN TimePointsFrom(changes, i + 1, acc)
    ELSE TimePointsFrom(changes, i + 1, Append(acc, changes[i].timestamp))

\* a time table with one entry per change
every_timestamp(changes) == [i \in 1..Len(changes) |-> changes[i].timestamp]

\* the distinct timestamps of the sorted changes
time_points_of(changes) == TimePointsFrom(changes, 1, <<>>)

\* the HashMap time_index: the last index inserted for ts, 0-based
time_index_of(time_points, ts) ==
    LET hits == {i \in 1..Len(time_points) : time_points[i] = ts}
    IN  (CHOOSE i \in hits : \A j \in hits : j <= i) - 1

\* per_handle[handle - 1]: (time index, value) of the handle's changes in order
per_handle_of(changes, time_points, handle) ==
    LET idxs == IndicesFrom([i \in 1..Len(changes) |-> changes[i].handle = handle], 1)
    IN  [j \in 1..Len(idxs) |->
            [idx |-> time_index_of(time_points, changes[idxs[j]].timestamp),
             value |-> changes[idxs[j]].value]]

\* the delta written in a chain marker
ChainDelta(previous_index, time_idx) ==
    IF previous_index = None THEN Ok(time_idx)
    ELSE IF time_idx < previous_index[1] THEN Err("time indices must be non-decreasing")
    ELSE Ok(time_idx - previous_index[1])

\* the bytes one change appends to its chain
EventBytes(delta, value) ==
    IF value.k = "Bit" THEN Ok(encode_varint(encode_marker(value.bit, delta)))
    ELSE IF value.k = "Vector" THEN
        IF value.packed # None THEN
            IF Len(value.packed[1]) # packed_len(value.width)
            THEN Err("packed vector payload length mismatch")
            ELSE Ok(encode_varint(Shl(delta, 1)) \o value.packed[1])
        ELSE IF Len(value.data) # value.width
        THEN Err("vector payload length mismatch with geometry")
        ELSE Ok(encode_varint(Shl(delta, 1) + 1) \o value.data)
    ELSE IF value.k = "Real"
    THEN Ok(encode_varint(Shl(delta, 1) + 1) \o Reverse(value.data))
    ELSE Ok(encode_varint(Shl(delta, 1)) \o encode_varint(Len(value.data)) \o value.data)

RECURSIVE ChainBytesFrom(_, _, _, _)
ChainBytesFrom(events, i, previous_index, chain_bytes) ==
    IF i > Len(events) THEN Ok(chain_bytes)
    ELSE LET delta == ChainDelta(previous_index, events[i].idx) IN
         IF ~delta.ok THEN delta
         ELSE LET bytes == EventBytes(delta.v, events[i].value) IN
              IF ~bytes.ok THEN bytes
              ELSE ChainBytesFrom(events, i + 1, Some(events[i].idx), chain_bytes \o bytes.v)

\* the raw chain of one handle
chain_bytes_of(events) == ChainBytesFrom(events, 1, None, <<>>)

RECURSIVE ChainBufferFrom(_, _, _, _, _, _, _)
\* the loop over per_handle that fills chain_buffer and chain_offsets
ChainBufferFrom(changes, time_points, max_handle, pack_type, handle, acc, required_memory) ==
    IF handle > max_handle
    THEN Ok([chain_buffer |-> acc.chain_buffer, chain_offsets |-> acc.chain_offsets,
             required_memory |-> required_memory])
    ELSE LET events == per_handle_of(changes, time_points, handle) IN
         IF events = <<>>
         THEN ChainBufferFrom(changes, time_points, max_handle, pack_type, handle + 1,
                  [acc EXCEPT !.chain_offsets = Append(@, None)], required_memory)
         ELSE LET chain == chain_bytes_of(events) IN
              IF ~chain.ok THEN chain
              ELSE LET enc == encode_chain_payload(pack_type, chain.v)
                       offset == Len(acc.chain_buffer)
                   IN  ChainBufferFrom(changes, time_points, max_handle, pack_type,
                           handle + 1,
                           [chain_buffer |-> acc.chain_buffer
                                             \o encode_varint(enc.stored_len) \o enc.bytes,
                            chain_offsets |-> Append(acc.chain_offsets, Some(offset))],
                           required_memory + Len(chain.v))

\* the index entry build_vc_block pushes for handle_idx + 1
IndexEntryFor(alias_entry, offset) ==
    IF alias_entry # None THEN EntryAlias(alias_entry[1])
    ELSE IF offset # None THEN EntryData(offset[1])
    ELSE EntryEmpty

RECURSIVE TimeDataFrom(_, _, _, _)
\* the varint deltas of the time table
TimeDataFrom(time_points, i, prev_time, time_data) ==
    IF i > Len(time_points) THEN Ok(time_data)
    ELSE IF i > 1 /\ time_points[i] < prev_time THEN Err("timestamps must be non-decreasing")
    ELSE TimeDataFrom(time_points, i + 1, time_points[i],
             time_data \o encode_varint(IF i = 1 THEN time_points[i]
                                        ELSE time_points[i] - prev_time))

\* ChainCompression -> PackType
chain_pack_type(opts) ==
    IF opts.chain_compression = "Raw" THEN "None" ELSE opts.chain_compression

\* the payload build_vc_block writes, section after section
assemble_payload(begin_time, end_time, required_memory, frame_encoding, frame_max_handle, max_handle, pack_type, chain_buffer, index_bytes, time_encoding) ==
    U64BE(begin_time) \o U64BE(end_time)
    \o U64BE(required_memory)
    \o encode_varint(frame_encoding.uncompressed_len)
    \o encode_varint(frame_encoding.compressed_len)
    \o encode_varint(frame_max_handle)
    \o frame_encoding.payload
    \o encode_varint(max_handle)
    \o <<pack_marker(pack_type)>>
    \o chain_buffer
    \o index_bytes
    \o U64BE(Len(index_bytes))
    \o time_encoding.payload
    \o U64BE(time_encoding.uncompressed_len)
    \o U64BE(time_encoding.compressed_len)
    \o U64BE(time_encoding.item_count)

\* FstWriter::build_vc_block: the block payload
build_vc_block(pending, frame_entries, geom, aliases, next, opts) ==
    IF pending = <<>>
    THEN Err("attempted to build a value-change block with no pending changes")
    ELSE
    LET changes == sort_changes(pending)
        max_handle == IF next >= 1 THEN next - 1 ELSE 0
        time_points == time_points_of(changes)
    IN
    IF max_handle = 0 THEN Err("no handles defined; unable to encode value-change block")
    ELSE IF time_points = <<>> THEN Err("value-change block requires at least one timestamp")
    ELSE
    LET frame_encoding == encode_frame_section(build_frame_bytes(frame_entries, geom, max_handle))
        frame_max_handle == IF frame_encoding.uncompressed_len > 0 THEN max_handle ELSE 0
        pack_type == chain_pack_type(opts)
        chains == ChainBufferFrom(changes, time_points, max_handle, pack_type, 1,
                      [chain_buffer |-> <<>>, chain_offsets |-> <<>>],
                      frame_encoding.uncompressed_len)
    IN
    IF ~chains.ok THEN chains
    ELSE
    LET index_entries == [h \in 1..max_handle |->
                             IndexEntryFor(IF h <= Len(aliases) THEN aliases[h] ELSE None,
                                           chains.v.chain_offsets[h])]
        index_bytes == encode_chain_index(index_entries)
        time_data == TimeDataFrom(time_points, 1, 0, <<>>)
    IN
    IF ~index_bytes.ok THEN index_bytes
    ELSE IF ~time_data.ok THEN time_data
    ELSE
    LET time_encoding == encode_time_section(time_data.v, Len(time_points),
                                             opts.time_compression = "Zlib")
    IN  Ok(assemble_payload(time_points[1], Last(time_points), chains.v.required_memory,
                            frame_encoding, frame_max_handle, max_handle, pack_type,
                            chains.v.chain_buffer, index_bytes.v, time_encoding))

\* ------------------------------------------------ block/geom.rs raw values
\* GeomEntry::to_raw: the u64 as its two 16-bit halves <<high, low>> of the low 32 bits
to_raw(entry) ==
    IF entry.k = "Fixed" THEN <<entry.n \div 65536, entry.n % 65536>>
    ELSE IF entry.k = "Real" THEN <<0, 0>>
    ELSE <<65535, 65535>>

\* GeomEntry::from_raw
from_raw(value) ==
    IF value = <<0, 0>> THEN Ok(Real)
    ELSE IF value = <<65535, 65535>> THEN Ok(Variable)
    ELSE Ok(Fixed(value[1] * 65536 + value[2]))

\* the GeomInfo entries a reader holds for a writer's geometry vector
geom_entries(geom) == [h \in 1..Len(geom) |-> from_raw(to_raw(geom[h])).v]

\* GeomInfo::entry
geom_entry(entries, handle) ==
    IF handle = 0 THEN None
    ELSE IF handle > Len(entries) THEN None
    ELSE Some(entries[handle])

\* ------------------------------------------------- util/mod.rs on a stream
\* Read::read_exact of n bytes at the 0-based position pos
read_exact(stream, pos, n) ==
    IF pos + n > Len(stream) THEN Err("failed to fill whole buffer")
    ELSE Ok(SubSeq(stream, pos + 1, pos + n))

\* the largest integer of TLC
MaxInt == 2147483647

\* read_u64_be / u64::from_be_bytes(read_array::<8>); a field beyond the
\* integers of TLC is read as the largest of them, which lies beyond every
\* position and length of a block of the model
read_u64_be(stream, pos) ==
    LET b == read_exact(stream, pos, 8) IN
    IF ~b.ok THEN b
    ELSE IF (\E i \in 1..4 : b.v[i] # 0) \/ b.v[5] >= 128 THEN Ok(MaxInt)
    ELSE Ok(U64FromBE(b.v))

RECURSIVE ReadVarintFrom(_, _, _, _)
\* the loop of read_varint_from_reader; the result carries the new position
ReadVarintFrom(stream, pos, shift, value) ==
    IF shift >= 64 THEN Err("varint exceeds 64-bit capacity")
    ELSE IF pos >= Len(stream) THEN Err("failed to fill whole buffer")
    ELSE LET byte == stream[pos + 1]
             v == value + Shl(byte % 128, shift)
         IN  IF byte < 128 THEN Ok([value |-> v, pos |-> pos + 1])
             ELSE ReadVarintFrom(stream, pos + 1, shift + 7, v)

read_varint_from_reader(stream, pos) == ReadVarintFrom(stream, pos, 0, 0)

\* encoding/varint_signed.rs decode_svarint applied to the decoded raw value
decode_svarint(raw) == IF raw % 2 = 0 THEN raw \div 2 ELSE -(raw \div 2) - 1

\* ------------------------------------------------ block/vc.rs decoders
\* FrameSection::decode
FrameSection_decode(uncompressed_len, compressed_len, bytes, max_handle) ==
    IF compressed_len = uncompressed_len
    THEN IF Len(bytes) # uncompressed_len THEN Err("frame payload length mismatch")
         ELSE Ok([data |-> bytes, max_handle |-> max_handle])
    ELSE LET decoded == zlib_decompress(bytes) IN
         IF ~decoded.ok THEN decoded
         ELSE IF Len(decoded.v) # uncompressed_len
         THEN Err("frame decompression length mismatch")
         ELSE Ok([data |-> decoded.v, max_handle |-> max_handle])

RECURSIVE TimeDeltasFrom(_, _, _, _)
\* the while loop of TimeTable::decode
TimeDeltasFrom(raw, offset, deltas, item_count) ==
    IF ~(offset < Len(raw) /\ Len(deltas) < item_count) THEN Ok(deltas)
    ELSE LET r == decode_varint_with_len(SubSeq(raw, offset + 1, Len(raw))) IN
         IF ~r.ok THEN Err("varint")
         ELSE TimeDeltasFrom(raw, offset + r.consumed, Append(deltas, r.value), item_count)

RECURSIVE Accumulate(_, _)
\* acc.checked_add(delta) pushed for each delta
Accumulate(deltas, acc) ==
    IF deltas = <<>> THEN <<>>
    ELSE <<acc + Head(deltas)>> \o Accumulate(Tail(deltas), acc + Head(deltas))

\* TimeTable::decode
TimeTable_decode(section, bytes) ==
    LET raw == IF section.compressed_len = section.uncompressed_len
               THEN IF Len(bytes) # section.uncompressed_len
                    THEN Err("time section length mismatch") ELSE Ok(bytes)
               ELSE LET decoded == zlib_decompress(bytes) IN
                    IF ~decoded.ok THEN decoded
                    ELSE IF Len(decoded.v) # section.uncompressed_len
                    THEN Err("time section decompression mismatch")
                    ELSE decoded
    IN  IF ~raw.ok THEN raw
        ELSE LET deltas == TimeDeltasFrom(raw.v, 0, <<>>, section.item_count) IN
             IF ~deltas.ok THEN deltas
             ELSE IF Len(deltas.v) # section.item_count
             THEN Err("time section item count mismatch")
             ELSE Ok([deltas |-> deltas.v, timestamps |-> Accumulate(deltas.v, 0)])

\* ------------------------------------------------------ reader/vc.rs
\* BlockType::VcDataDynAlias2 as u8
BlockTypeVcDataDynAlias2 == 8

\* EntryTmp
TmpEmpty == [k |-> "Empty", offset |-> 0, target |-> 0]

TmpData(offset) == [k |-> "Data", offset |-> offset, target |-> 0]

TmpAlias(target) == [k |-> "Alias", offset |-> 0, target |-> target]

RECURSIVE DecodeIndexFrom(_, _, _, _, _)
\* the while loop of decode_chain_index over the index bytes
DecodeIndexFrom(slice, block_type, entries, last_offset, last_alias_target) ==
    IF slice = <<>> THEN Ok(entries)
    ELSE LET r == decode_varint_with_len(slice)
             rest == SubSeq(slice, r.consumed + 1, Len(slice))
         IN
         IF ~r.ok THEN Err("unexpected end of input while decoding varint")
         ELSE IF block_type = BlockTypeVcDataDynAlias2 /\ slice[1] % 2 = 1
         THEN LET shval == decode_svarint(r.value) \div 2 IN
              IF shval > 0
              THEN DecodeIndexFrom(rest, block_type,
                       Append(entries, TmpData(last_offset + shval)),
                       last_offset + shval, None)
              ELSE IF shval < 0
              THEN DecodeIndexFrom(rest, block_type,
                       Append(entries, TmpAlias((-shval) - 1)),
                       last_offset, Some((-shval) - 1))
              ELSE IF last_alias_target # None
              THEN DecodeIndexFrom(rest, block_type,
                       Append(entries, TmpAlias(last_alias_target[1])),
                       last_offset, last_alias_target)
              ELSE DecodeIndexFrom(rest, block_type, Append(entries, TmpEmpty),
                       last_offset, last_alias_target)
         ELSE IF r.value = 0
         THEN LET a == decode_varint_with_len(rest)
                  rest2 == SubSeq(rest, a.consumed + 1, Len(rest))
              IN  IF ~a.ok THEN Err("unexpected end of input while decoding varint")
                  ELSE IF a.value = 0
                  THEN DecodeIndexFrom(rest2, block_type, Append(entries, TmpEmpty),
                           last_offset, None)
                  ELSE DecodeIndexFrom(rest2, block_type,
                           Append(entries, TmpAlias(a.value - 1)),
                           last_offset, Some(a.value - 1))
         ELSE IF r.value % 2 = 0
         THEN DecodeIndexFrom(rest, block_type,
                  entries \o Repeat(TmpEmpty, r.value \div 2), last_offset,
                  last_alias_target)
         ELSE DecodeIndexFrom(rest, block_type,
                  Append(entries, TmpData(last_offset + (r.value \div 2))),
                  last_offset + (r.value \div 2), None)

\* const PACK_MARKER_PREFIX
PACK_MARKER_PREFIX == 1

\* offsets[idx] after the pack marker prefix is subtracted (idx is 1-based here)
IndexOffset(entries, idx) ==
    IF entries[idx].k = "Data" THEN Some(entries[idx].offset - PACK_MARKER_PREFIX) ELSE None

\* every Data entry is given the bytes up to the end of the chain buffer
length_to_end(entries, idx, total_chain_len) ==
    total_chain_len - IndexOffset(entries, idx)[1]

\* lengths[idx] of a Data entry: the distance to the next Data entry or to the
\* end, (a - b) as u32 on u64 operands. A difference below zero is what a build
\* without overflow checks wraps to 2^32 plus that difference; it is kept as the
\* negative difference, 2^32 being beyond the integers of TLC
IndexLength(entries, idx, total_chain_len) ==
    LET later == {j \in (idx + 1)..Len(entries) : entries[j].k = "Data"}
        next == CHOOSE j \in later : \A m \in later : j <= m
    IN  IF later = {} THEN total_chain_len - IndexOffset(entries, idx)[1]
        ELSE IndexOffset(entries, next)[1] - IndexOffset(entries, idx)[1]

\* every entry is given the whole chain buffer as its slot
whole_buffer(idx, entries, total_chain_len, visiting) == Some(<<0, total_chain_len>>)

RECURSIVE resolve(_, _, _, _)
\* fn resolve: the (offset, length) an entry has or inherits through alias targets
resolve(idx, entries, total_chain_len, visiting) ==
    IF entries[idx].k = "Data"
    THEN Some(<<IndexOffset(entries, idx)[1], IndexLength(entries, idx, total_chain_len)>>)
    ELSE IF idx \in visiting THEN None
    ELSE IF entries[idx].k = "Alias" /\ entries[idx].target < Len(entries)
    THEN resolve(entries[idx].target + 1, entries, total_chain_len, visiting \cup {idx})
    ELSE None

\* an alias entry named after the entry it points at, whatever that entry is
alias_target(idx, entries, visiting) ==
    IF entries[idx].k = "Alias" THEN Some(entries[idx].target) ELSE Some(idx - 1)

RECURSIVE resolve_canonical(_, _, _)
\* fn resolve_canonical: the 0-based index of the entry whose payload idx shares
resolve_canonical(idx, entries, visiting) ==
    IF idx \in visiting THEN None
    ELSE IF entries[idx].k = "Data" THEN Some(idx - 1)
    ELSE IF entries[idx].k = "Alias"
    THEN IF entries[idx].target < Len(entries)
         THEN resolve_canonical(entries[idx].target + 1, entries, visiting \cup {idx})
         ELSE None
    ELSE None

\* ChainSlot of entry idx, or None
SlotOf(entries, idx, total_chain_len, chain_start) ==
    LET r == resolve(idx, entries, total_chain_len, {})
        canon == resolve_canonical(idx, entries, {})
    IN  IF r = None THEN None
        ELSE Some([offset |-> chain_start + r[1][1], length |-> r[1][2],
                   alias_of |-> IF entries[idx].k = "Data" THEN None
                                ELSE IF canon # None THEN Some(canon[1] + 1)
                                ELSE None])

\* decode_chain_index: ChainIndex.slots
decode_chain_index(stream, block_type, index_start, index_length, max_handle_hint, chain_start, chain_end, overflow_checks) ==
    LET bytes == read_exact(stream, index_start, index_length) IN
    IF ~bytes.ok THEN bytes
    ELSE LET decoded == DecodeIndexFrom(bytes.v, block_type, <<>>, 0, None) IN
    IF ~decoded.ok THEN decoded
    ELSE IF chain_end < chain_start THEN Err("negative chain range")
    ELSE LET entries == decoded.v
             total_chain_len == chain_end - chain_start
             data == {i \in 1..Len(entries) : entries[i].k = "Data"}
         IN
         IF \E i \in data : entries[i].offset < PACK_MARKER_PREFIX
         THEN Err("chain offset precedes pack marker")
         ELSE IF overflow_checks /\ \E i \in data : IndexLength(entries, i, total_chain_len) < 0
         THEN Panic("attempt to subtract with overflow")
         ELSE LET slots == [i \in 1..Len(entries) |->
                               SlotOf(entries, i, total_chain_len, chain_start)]
              IN  Ok(IF Len(slots) < max_handle_hint + 1
                     THEN slots \o Repeat(None, max_handle_hint + 1 - Len(slots))
                     ELSE slots)

\* decompress_chain_payload; the lz4 and fastlz codecs are not modelled
decompress_chain_payload(pack_type, input, expected_len) ==
    IF pack_type = "None"
    THEN IF Len(input) # expected_len THEN Err("chain length mismatch") ELSE Ok(input)
    ELSE IF pack_type = "Zlib"
    THEN LET out == zlib_decompress(input) IN
         IF ~out.ok THEN out
         ELSE IF Len(out.v) # expected_len THEN Err("chain zlib length mismatch")
         ELSE out
    ELSE Err("chain decompression requires a codec feature")

\* ChainJob: a compressed chain waiting for decompression (handle_index is 0-based)
ChainJob(handle_index, alias_of_slot, stored_len, compressed) ==
    [handle_index |-> handle_index, alias_of |-> alias_of_slot, stored_len |-> stored_len,
     compressed |-> compressed]

\* ChainData; payload holds the bytes of ChainPayload::as_slice, owned tells
\* ChainPayload::Owned from ChainPayload::Borrowed
ChainData(handle, stored_len, owned, payload, alias_of_slot) ==
    [handle |-> handle, stored_len |-> stored_len, owned |-> owned, payload |-> payload,
     alias_of |-> alias_of_slot]

RECURSIVE ChainJobsFrom(_, _, _, _, _, _)
\* the first loop of build_chains: borrowed chains are stored, compressed ones queued
ChainJobsFrom(buffer, chain_start, slots, i, chains, jobs) ==
    IF i > Len(slots) THEN Ok([chains |-> chains, jobs |-> jobs])
    ELSE IF slots[i] = None
    THEN ChainJobsFrom(buffer, chain_start, slots, i + 1, chains, jobs)
    ELSE
    LET slot == slots[i][1]
        rel_offset == slot.offset - chain_start
        end == rel_offset + slot.length
    IN
    IF slot.length < 0 \/ end > Len(buffer) THEN Err("chain slot exceeds buffer bounds")
    ELSE LET slice == SubSeq(buffer, rel_offset + 1, end)
             r == decode_varint_with_len(slice)
         IN
         IF ~r.ok THEN Err("unexpected end of input while decoding varint")
         ELSE LET payload_bytes == SubSeq(slice, r.consumed + 1, Len(slice)) IN
              IF r.value = 0
              THEN ChainJobsFrom(buffer, chain_start, slots, i + 1,
                       [chains EXCEPT ![i] = Some(ChainData(i - 1, slot.length - r.consumed,
                                                            FALSE, payload_bytes,
                                                            slot.alias_of))],
                       jobs)
              ELSE ChainJobsFrom(buffer, chain_start, slots, i + 1, chains,
                       Append(jobs, ChainJob(i - 1, slot.alias_of, r.value, payload_bytes)))

\* the decompress closure of build_chains: ChainJobResult
decompress(pack_type, job) ==
    LET data == decompress_chain_payload(pack_type, job.compressed, job.stored_len) IN
    IF ~data.ok THEN data
    ELSE Ok([handle_index |-> job.handle_index, alias_of |-> job.alias_of,
             stored_len |-> job.stored_len, payload |-> data.v])

RECURSIVE StoreResults(_, _, _)
\* the last loop of build_chains: every job result becomes an owned chain
StoreResults(chains, results, i) ==
    IF i > Len(results) THEN chains
    ELSE LET result == results[i] IN
         StoreResults([chains EXCEPT ![result.handle_index + 1] =
                          Some(ChainData(result.handle_index, result.stored_len,
                                         TRUE, result.payload, result.alias_of))],
                      results, i + 1)

\* collect::<Result<Vec<_>>>() over results in job order: the first error in
\* job order, or every value
collect_results(results) ==
    LET failed == {i \in 1..Len(results) : ~results[i].ok} IN
    IF failed # {} THEN results[CHOOSE i \in failed : \A j \in failed : i <= j]
    ELSE Ok([i \in 1..Len(results) |-> results[i].v])

\* build_chains with the jobs run one after the other:
\* Vec<Option<ChainData>>, or the first error
build_chains(buffer, chain_start, slots, pack_type) ==
    LET first == ChainJobsFrom(buffer, chain_start, slots, 1,
                               [i \in 1..Len(slots) |-> None], <<>>)
    IN
    IF ~first.ok THEN first
    ELSE LET results == collect_results([j \in 1..Len(first.v.jobs) |->
                                            decompress(pack_type, first.v.jobs[j])])
         IN  IF ~results.ok THEN results
             ELSE Ok(StoreResults(first.v.chains, results.v, 1))

\* the trailer half of parse_vc_block, from the position after the pack marker,
\* up to the call of build_chains
ParseTrailer(stream, block_type, section_start, payload_len, head, frame, chain_start, overflow_checks) ==
    LET block_end == section_start + payload_len IN
    IF payload_len < 32 THEN Err("value-change payload shorter than required trailer")
    ELSE
    LET time_trailer_start == block_end - 24
        time_uncompressed_len == read_u64_be(stream, time_trailer_start)
        time_compressed_len == read_u64_be(stream, time_trailer_start + 8)
        time_item_count == read_u64_be(stream, time_trailer_start + 16)
    IN
    IF ~time_uncompressed_len.ok THEN time_uncompressed_len
    ELSE IF ~time_compressed_len.ok THEN time_compressed_len
    ELSE IF ~time_item_count.ok THEN time_item_count
    ELSE
    LET time_section == [uncompressed_len |-> time_uncompressed_len.v,
                         compressed_len |-> time_compressed_len.v,
                         item_count |-> time_item_count.v]
        time_data_start == time_trailer_start - time_section.compressed_len
        index_length_pos == time_data_start - 8
    IN
    IF time_data_start < 0 THEN Err("invalid time section lengths")
    ELSE IF index_length_pos < 0 THEN Err("missing index length trailer")
    ELSE
    LET index_length == read_u64_be(stream, index_length_pos) IN
    IF ~index_length.ok THEN index_length
    ELSE IF index_length_pos - index_length.v < 0 THEN Err("index length exceeds block bounds")
    ELSE
    LET index_start == index_length_pos - index_length.v
        chain_end == index_start
        index == decode_chain_index(stream, block_type, index_start, index_length.v,
                                    head.vc_max_handle, chain_start, chain_end,
                                    overflow_checks)
    IN
    IF ~index.ok THEN index
    ELSE
    LET time_bytes == read_exact(stream, time_data_start, time_section.compressed_len) IN
    IF ~time_bytes.ok THEN time_bytes
    ELSE
    LET time_table == TimeTable_decode(time_section, time_bytes.v) IN
    IF ~time_table.ok THEN time_table
    ELSE IF chain_end < chain_start THEN Err("negative chain range")
    ELSE
    LET chain_buffer == read_exact(stream, chain_start, chain_end - chain_start) IN
    IF ~chain_buffer.ok THEN chain_buffer
    ELSE
    Ok([header |-> [head EXCEPT !.index_length = index_length.v],
        frame |-> frame, chain_buffer |-> chain_buffer.v, chain_start |-> chain_start,
        time_section |-> time_section, time_table |-> time_table.v,
        index |-> index.v])

\* parse_vc_block up to the call of build_chains
parse_vc_sections(stream, block_type, section_start, payload_len, overflow_checks) ==
    LET begin_time == read_u64_be(stream, section_start)
        end_time == read_u64_be(stream, section_start + 8)
        required_memory == read_u64_be(stream, section_start + 16)
        frame_uncompressed_len == read_varint_from_reader(stream, section_start + 24)
    IN
    IF ~begin_time.ok THEN begin_time
    ELSE IF ~end_time.ok THEN end_time
    ELSE IF ~required_memory.ok THEN required_memory
    ELSE IF ~frame_uncompressed_len.ok THEN frame_uncompressed_len
    ELSE
    LET frame_compressed_len == read_varint_from_reader(stream, frame_uncompressed_len.v.pos)
    IN
    IF ~frame_compressed_len.ok THEN frame_compressed_len
    ELSE
    LET frame_max_handle == read_varint_from_reader(stream, frame_compressed_len.v.pos) IN
    IF ~frame_max_handle.ok THEN frame_max_handle
    ELSE
    LET frame_bytes == read_exact(stream, frame_max_handle.v.pos,
                                  frame_compressed_len.v.value)
    IN
    IF ~frame_bytes.ok THEN frame_bytes
    ELSE
    LET frame == FrameSection_decode(frame_uncompressed_len.v.value,
                                     frame_compressed_len.v.value, frame_bytes.v,
                                     frame_max_handle.v.value)
    IN
    IF ~frame.ok THEN frame
    ELSE
    LET vc_max_handle == read_varint_from_reader(stream,
                             frame_max_handle.v.pos + frame_compressed_len.v.value)
    IN
    IF ~vc_max_handle.ok THEN vc_max_handle
    ELSE
    LET pack == read_exact(stream, vc_max_handle.v.pos, 1) IN
    IF ~pack.ok THEN pack
    ELSE IF from_marker(pack.v[1]) = None THEN Err("unknown pack marker")
    ELSE ParseTrailer(stream, block_type, section_start, payload_len,
             [begin_time |-> begin_time.v, end_time |-> end_time.v,
              required_memory |-> required_memory.v,
              frame_uncompressed_len |-> frame_uncompressed_len.v.value,
              frame_compressed_len |-> frame_compressed_len.v.value,
              frame_max_handle |-> frame_max_handle.v.value,
              vc_max_handle |-> vc_max_handle.v.value,
              pack_type |-> from_marker(pack.v[1])[1], marker |-> pack.v[1],
              index_length |-> 0],
             frame.v, vc_max_handle.v.pos + 1, overflow_checks)

\* VcBlockMeta: the parsed sections and the chains built from them
VcBlockMeta(sections, chains) ==
    [header |-> sections.header, frame |-> sections.frame,
     chain_buffer |-> sections.chain_buffer, chains |-> chains,
     time_section |-> sections.time_section, time_table |-> sections.time_table,
     index |-> sections.index]

\* parse_vc_block: VcBlockMeta; overflow_checks tells the build that panics on
\* integer overflow from the build that wraps
parse_vc_block_in(stream, block_type, section_start, payload_len, overflow_checks) ==
    LET sections == parse_vc_sections(stream, block_type, section_start, payload_len,
                                      overflow_checks) IN
    IF ~sections.ok THEN sections
    ELSE LET chains == build_chains(sections.v.chain_buffer, sections.v.chain_start,
                                    sections.v.index, sections.v.header.pack_type)
         IN  IF ~chains.ok THEN chains
             ELSE Ok(VcBlockMeta(sections.v, chains.v))

\* parse_vc_block on a block that FstWriter or encode_chain_index laid out: no
\* Data offset lies beyond the chain buffer, and both builds parse it alike
parse_vc_block(stream, block_type, section_start, payload_len) ==
    parse_vc_block_in(stream, block_type, section_start, payload_len, TRUE)

\* ---------------------------------------------------- reader/change.rs
\* const FST_RCV_STR
FST_RCV_STR == <<120, 122, 104, 117, 119, 108, 45, 63>>

KindBit == [k |-> "Bit", width |-> 0]

KindVector(width) == [k |-> "Vector", width |-> width]

KindVarLen == [k |-> "VarLen", width |-> 0]

KindReal == [k |-> "Real", width |-> 0]

\* SignalKind::from_geom
from_geom(entry) ==
    IF entry.k = "Fixed" THEN
        IF entry.n = 0 THEN Err("handle has zero-width fixed geometry")
        ELSE IF entry.n = 1 THEN Ok(KindBit)
        ELSE Ok(KindVector(entry.n))
    ELSE IF entry.k = "Real" THEN Ok(KindReal)
    ELSE Ok(KindVarLen)

\* ChainCursor::new
ChainCursor(handle, kind, data) ==
    [handle |-> handle, kind |-> kind, data |-> data, offset |-> 0,
     current_time_index |-> 0]

\* ChainCursor::compute_delta
compute_delta(kind, marker) ==
    IF kind.k = "Bit" THEN Shr(marker, Shl(2, marker % 2)) ELSE Shr(marker, 1)

\* every marker still to be read is taken to ask for the current time slot
current_slot(cursor) ==
    IF cursor.offset >= Len(cursor.data) THEN Ok(None) ELSE Ok(Some(0))

\* ChainCursor::peek_delta: Ok(None) at the end of the chain
peek_delta(cursor) ==
    IF cursor.offset >= Len(cursor.data) THEN Ok(None)
    ELSE LET r == decode_varint_with_len(
                      SubSeq(cursor.data, cursor.offset + 1, Len(cursor.data)))
         IN  IF ~r.ok THEN Err("unexpected end of input while decoding varint")
             ELSE Ok(Some(compute_delta(cursor.kind, r.value)))

\* a one-bit value is returned and the cursor is left on the marker it has read
marker_unread(kind, data, marker, offset) ==
    Ok([value |-> Bit(48 + (Shr(marker, 1) % 2)), offset |-> offset - 1])

\* the payload read after the marker: the value and the offset behind it
ReadPayload(kind, data, marker, offset) ==
    IF kind.k = "Bit" THEN
        IF marker % 2 = 0
        THEN Ok([value |-> Bit(48 + (Shr(marker, 1) % 2)), offset |-> offset])
        ELSE Ok([value |-> Bit(FST_RCV_STR[(Shr(marker, 1) % 8) + 1]), offset |-> offset])
    ELSE IF kind.k = "VarLen" THEN
        LET r == decode_varint_with_len(SubSeq(data, offset + 1, Len(data))) IN
        IF ~r.ok THEN Err("unexpected end of input while decoding varint")
        ELSE LET end == offset + r.consumed + r.value IN
             IF end > Len(data) THEN Err("variable-length payload exceeds chain bounds")
             ELSE Ok([value |-> Bytes(SubSeq(data, offset + r.consumed + 1, end)),
                      offset |-> end])
    ELSE IF kind.k = "Vector" THEN
        IF kind.width = 0 THEN Err("vector width may not be zero")
        ELSE IF marker % 2 = 0
        THEN LET end == offset + packed_len(kind.width) IN
             IF end > Len(data) THEN Err("packed vector payload exceeds chain bounds")
             ELSE Ok([value |-> PackedBits(kind.width, SubSeq(data, offset + 1, end)),
                      offset |-> end])
        ELSE LET end == offset + kind.width
                 bytes == SubSeq(data, offset + 1, end)
             IN  IF end > Len(data) THEN Err("vector payload exceeds chain bounds")
                 \* str::from_utf8 accepts exactly the ASCII strings among the
                 \* byte strings of this model
                 ELSE IF \A i \in 1..Len(bytes) : bytes[i] < 128
                 THEN Ok([value |-> Vector(bytes), offset |-> end])
                 ELSE Ok([value |-> Bytes(bytes), offset |-> end])
    ELSE
        IF marker % 2 = 0
        THEN LET end == offset + 1 IN
             IF end > Len(data) THEN Err("packed real payload exceeds chain bounds")
             ELSE Ok([value |-> PackedBits(8, SubSeq(data, offset + 1, end)),
                      offset |-> end])
        ELSE LET end == offset + 8 IN
             IF end > Len(data) THEN Err("real payload exceeds chain bounds")
             ELSE Ok([value |-> RealValue(Reverse(SubSeq(data, offset + 1, end))),
                      offset |-> end])

\* ChainCursor::read_value: Ok([cursor, value]) with value an Option
read_value(cursor, expected_time_index) ==
    IF cursor.offset >= Len(cursor.data) THEN Ok([cursor |-> cursor, value |-> None])
    ELSE LET r == decode_varint_with_len(
                      SubSeq(cursor.data, cursor.offset + 1, Len(cursor.data)))
         IN
         IF ~r.ok THEN Err("unexpected end of input while decoding varint")
         ELSE LET current == cursor.current_time_index + compute_delta(cursor.kind, r.value)
              IN
              IF current # expected_time_index THEN Err("chain scheduling mismatch")
              ELSE LET p == ReadPayload(cursor.kind, cursor.data, r.value,
                                        cursor.offset + r.consumed)
                   IN  IF ~p.ok THEN p
                       ELSE Ok([cursor |-> [cursor EXCEPT !.offset = p.v.offset,
                                                          !.current_time_index = current],
                                value |-> Some(p.v.value)])

\* ValueChange
ValueChange(timestamp, handle, alias, value) ==
    [timestamp |-> timestamp, handle |-> handle, alias_of |-> alias, value |-> value]

RECURSIVE CursorsFrom(_, _, _, _)
\* the first loop of VcBlockChanges::new: a cursor per chain that is no alias
CursorsFrom(chains, entries, idx, cursors) ==
    IF idx > Len(chains) THEN Ok(cursors)
    ELSE IF chains[idx] = None THEN CursorsFrom(chains, entries, idx + 1, cursors)
    ELSE IF chains[idx][1].alias_of # None THEN CursorsFrom(chains, entries, idx + 1, cursors)
    ELSE LET geom_opt == geom_entry(entries, idx) IN
         IF geom_opt = None THEN Err("missing geometry entry for handle")
         ELSE LET kind == from_geom(geom_opt[1]) IN
              IF ~kind.ok THEN kind
              ELSE CursorsFrom(chains, entries, idx + 1,
                       Append(cursors, ChainCursor(idx, kind.v, chains[idx][1].payload)))

RECURSIVE ScheduleFrom(_, _, _, _)
\* the second loop of VcBlockChanges::new: each cursor under its first delta
ScheduleFrom(cursors, idx, time_len, schedule) ==
    IF idx > Len(cursors) THEN Ok(schedule)
    ELSE LET delta == peek_delta(cursors[idx]) IN
         IF ~delta.ok THEN delta
         ELSE IF delta.v = None THEN ScheduleFrom(cursors, idx + 1, time_len, schedule)
         ELSE IF delta.v[1] >= time_len THEN Err("initial chain delta exceeds time table")
         ELSE ScheduleFrom(cursors, idx + 1, time_len,
                  [schedule EXCEPT ![delta.v[1] + 1] = Append(@, idx)])

RECURSIVE InsertByHandle(_, _, _)
InsertByHandle(sorted, idx, cursors) ==
    IF sorted = <<>> THEN <<idx>>
    ELSE IF cursors[Last(sorted)].handle <= cursors[idx].handle THEN Append(sorted, idx)
    ELSE Append(InsertByHandle(Front(sorted), idx, cursors), Last(sorted))

RECURSIVE sort_by_handle(_, _)
\* handles.sort_unstable_by_key(|idx| cursors[*idx].handle); handles are distinct
sort_by_handle(handles, cursors) ==
    IF handles = <<>> THEN <<>>
    ELSE InsertByHandle(sort_by_handle(Front(handles), cursors), Last(handles), cursors)

\* the alias handles of canon in descending slot order
alias_map_descending(slots, canon) ==
    Reverse(IndicesFrom([i \in 1..Len(slots) |->
                            slots[i] # None /\ slots[i][1].alias_of = Some(canon)], 1))

\* alias_map[canon]: the handles whose slot is an alias of canon, in slot order
alias_map_of(slots, canon) ==
    IndicesFrom([i \in 1..Len(slots) |->
                    slots[i] # None /\ slots[i][1].alias_of = Some(canon)], 1)

\* VcBlockChanges::new
VcBlockChanges_new(block, entries, time_zero) ==
    LET cursors == CursorsFrom(block.chains, entries, 1, <<>>)
        time_len == Len(block.time_table.timestamps)
    IN
    IF ~cursors.ok THEN cursors
    ELSE LET schedule == ScheduleFrom(cursors.v, 1, time_len, [t \in 1..time_len |-> <<>>])
         IN
         IF ~schedule.ok THEN schedule
         ELSE Ok([timestamps |-> block.time_table.timestamps,
                  cursors |-> cursors.v,
                  schedule |-> [t \in 1..time_len |->
                                   sort_by_handle(schedule.v[t], cursors.v)],
                  current_handles |-> <<>>,
                  pending_aliases |-> <<>>,
                  alias_map |-> [c \in 1..(Len(block.index) + 1) |->
                                    alias_map_of(block.index, c - 1)],
                  time_index |-> 0,
                  time_zero |-> time_zero])

RECURSIVE next_canonical(_)
\* VcBlockChanges::next_canonical: [it, item], item an Ok(Option<ValueChange>) or an Err
next_canonical(it) ==
    IF it.pending_aliases # <<>>
    THEN [it |-> [it EXCEPT !.pending_aliases = Tail(@)],
          item |-> Ok(Some(Head(it.pending_aliases)))]
    ELSE IF it.time_index >= Len(it.timestamps) THEN [it |-> it, item |-> Ok(None)]
    ELSE
    LET taken == it.current_handles = <<>>
        handles == IF taken
                   THEN sort_by_handle(it.schedule[it.time_index + 1], it.cursors)
                   ELSE it.current_handles
        it1 == IF taken THEN [it EXCEPT !.schedule[it.time_index + 1] = <<>>] ELSE it
    IN
    IF handles = <<>>
    THEN next_canonical([it1 EXCEPT !.current_handles = <<>>,
                                    !.time_index = it.time_index + 1])
    ELSE
    LET cursor_idx == Last(handles)
        others == Front(handles)
        it2 == [it1 EXCEPT !.current_handles = others]
        timestamp == it.timestamps[it.time_index + 1] + it.time_zero
        rv == read_value(it.cursors[cursor_idx], it.time_index)
    IN
    IF ~rv.ok THEN [it |-> it2, item |-> rv]
    ELSE IF rv.v.value = None THEN next_canonical(it2)
    ELSE
    LET cursor == rv.v.cursor
        it3 == [it2 EXCEPT !.cursors[cursor_idx] = cursor]
        next_delta == peek_delta(cursor)
    IN
    IF ~next_delta.ok THEN [it |-> it3, item |-> next_delta]
    ELSE IF next_delta.v # None /\ it.time_index + next_delta.v[1] >= Len(it.schedule)
    THEN [it |-> it3, item |-> Err("chain delta exceeds time table")]
    ELSE
    LET it4 == IF next_delta.v = None THEN it3
               ELSE [it3 EXCEPT !.schedule[it.time_index + next_delta.v[1] + 1] =
                                    Append(@, cursor_idx)]
        aliases == IF cursor.handle + 1 <= Len(it.alias_map)
                   THEN it.alias_map[cursor.handle + 1] ELSE <<>>
    IN  [it |-> [it4 EXCEPT !.pending_aliases =
                     @ \o [a \in 1..Len(aliases) |->
                              ValueChange(timestamp, aliases[a], Some(cursor.handle),
                                          rv.v.value[1])]],
         item |-> Ok(Some(ValueChange(timestamp, cursor.handle, None, rv.v.value[1])))]

RECURSIVE CollectFrom(_, _)
\* Iterator::next called until it yields None or an error
CollectFrom(it, acc) ==
    LET step == next_canonical(it) IN
    IF ~step.item.ok THEN [events |-> acc, err |-> step.item.err]
    ELSE IF step.item.v = None THEN [events |-> acc, err |-> ""]
    ELSE CollectFrom(step.it, Append(acc, step.item.v[1]))

\* next_value_changes on one block followed by a full iteration
read_changes(stream, block_type, entries, time_zero) ==
    LET block == parse_vc_block(stream, block_type, 0, Len(stream)) IN
    IF ~block.ok THEN [events |-> <<>>, err |-> block.err]
    ELSE LET it == VcBlockChanges_new(block.v, entries, time_zero) IN
         IF ~it.ok THEN [events |-> <<>>, err |-> it.err]
         ELSE CollectFrom(it.v, <<>>)

\* ------------------------------------------------ block/hier.rs HierarchyBlock
\* ScopeType::GenAttrBegin
GenAttrBegin == 252

\* ScopeType::GenAttrEnd
GenAttrEnd == 253

\* ScopeType::VcdScope
VcdScope == 254

\* ScopeType::VcdUpscope
VcdUpscope == 255

\* ScopeType::VcdModule
VcdModule == 0

\* VarType::VcdWire
VcdWire == 16

\* VarType::SvShortReal, the largest VarType
SvShortReal == 29

\* VarDir::Implicit
Implicit == 0

\* VarDir::Linkage, the largest VarDir
Linkage == 5

\* HierarchyItem (indices are 0-based as in the code)
ItemScopeBegin(scope_index) == [k |-> "ScopeBegin", index |-> scope_index]

ItemScopeEnd == [k |-> "ScopeEnd", index |-> 0]

ItemVar(var_index) == [k |-> "Var", index |-> var_index]

ScopeEntry(scope_type, name, parent) ==
    [scope_type |-> scope_type, name |-> name, component |-> None, parent |-> parent]

VarEntry(name, length, handle, alias, scope, is_alias) ==
    [var_type |-> VcdWire, direction |-> Implicit, name |-> name, length |-> length,
     handle |-> handle, alias_of |-> alias, scope |-> scope, is_alias |-> is_alias]

\* the VarEntry.length add_variable and add_alias derive from the geometry
var_length(geom) == IF geom.k = "Fixed" THEN Some(geom.n) ELSE None

\* write_cstring
write_cstring(text) == text \o <<0>>

\* the bytes emit_stream pushes for one item
EmitItem(item, scope_entries, var_entries) ==
    IF item.k = "ScopeBegin"
    THEN IF item.index >= Len(scope_entries)
         THEN Err("hierarchy item references out-of-range scope index")
         ELSE LET scope == scope_entries[item.index + 1] IN
              Ok(<<VcdScope, scope.scope_type>> \o write_cstring(scope.name)
                 \o write_cstring(IF scope.component = None THEN <<>> ELSE scope.component[1]))
    ELSE IF item.k = "ScopeEnd" THEN Ok(<<VcdUpscope>>)
    ELSE IF item.index >= Len(var_entries)
         THEN Err("hierarchy item references out-of-range variable index")
         ELSE LET var == var_entries[item.index + 1] IN
              Ok(<<var.var_type, var.direction>> \o write_cstring(var.name)
                 \o encode_varint(IF var.length = None THEN 0 ELSE var.length[1])
                 \o encode_varint(IF var.alias_of = None THEN 0 ELSE var.alias_of[1]))

RECURSIVE EmitFrom(_, _, _, _, _)
EmitFrom(items, i, scope_entries, var_entries, out) ==
    IF i > Len(items) THEN Ok(out)
    ELSE LET bytes == EmitItem(items[i], scope_entries, var_entries) IN
         IF ~bytes.ok THEN bytes
         ELSE EmitFrom(items, i + 1, scope_entries, var_entries, out \o bytes.v)

\* HierarchyBlock::emit_stream
emit_stream(items, scope_entries, var_entries) ==
    EmitFrom(items, 1, scope_entries, var_entries, <<>>)

\* HierarchyBlock::encode_block(HierarchyCompression::Raw) and EncodedHierarchy::write_to:
\* section length, uncompressed length, data
encode_block(items, scope_entries, var_entries) ==
    LET raw == emit_stream(items, scope_entries, var_entries) IN
    IF ~raw.ok THEN raw
    ELSE Ok(U64BE(Len(raw.v) + 16) \o U64BE(Len(raw.v)) \o raw.v)

\* next_byte: the byte and the offset behind it
next_byte(data, offset) ==
    IF offset >= Len(data) THEN Err("unexpected end of hierarchy payload")
    ELSE Ok([value |-> data[offset + 1], offset |-> offset + 1])

\* read_cstring: the text up to the next 0 byte and the offset behind that byte
read_cstring(data, offset) ==
    LET zeros == {i \in (offset + 1)..Len(data) : data[i] = 0} IN
    IF zeros = {} THEN Err("unterminated string in hierarchy block")
    ELSE LET end == CHOOSE i \in zeros : \A j \in zeros : i <= j IN
         Ok([value |-> SubSeq(data, offset + 1, end - 1), offset |-> end])

\* decode_varint_slice
decode_varint_slice(data, offset) ==
    LET r == decode_varint_with_len(SubSeq(data, offset + 1, Len(data))) IN
    IF ~r.ok THEN Err("varint") ELSE Ok([value |-> r.value, offset |-> offset + r.consumed])

\* the VcdScope arm of parse_stream
ParseScope(data, offset, st) ==
    LET scope_type_byte == next_byte(data, offset) IN
    IF ~scope_type_byte.ok THEN scope_type_byte
    ELSE IF ~(scope_type_byte.v.value <= 21 \/ scope_type_byte.v.value >= GenAttrBegin)
    THEN Err("unknown scope type in hierarchy block")
    ELSE LET name == read_cstring(data, scope_type_byte.v.offset) IN
         IF ~name.ok THEN name
         ELSE LET component == read_cstring(data, name.v.offset) IN
              IF ~component.ok THEN component
              ELSE LET entry == [scope_type |-> scope_type_byte.v.value,
                                 name |-> name.v.value,
                                 component |-> IF component.v.value = <<>> THEN None
                                               ELSE Some(component.v.value),
                                 parent |-> IF st.scope_stack = <<>> THEN None
                                            ELSE Some(Last(st.scope_stack))]
                   IN  Ok([offset |-> component.v.offset,
                           st |-> [st EXCEPT
                                     !.scopes = Append(@, entry),
                                     !.scope_stack = Append(@, Len(st.scopes)),
                                     !.items = Append(@, ItemScopeBegin(Len(st.scopes)))]])

\* the variable arm of parse_stream: an alias field of 0 takes the next handle,
\* any other value becomes both the handle and alias_of
ParseVar(data, offset, tag, st) ==
    IF tag > SvShortReal THEN Err("unexpected tag in hierarchy block")
    ELSE LET dir_byte == next_byte(data, offset) IN
    IF ~dir_byte.ok THEN dir_byte
    ELSE IF dir_byte.v.value > Linkage
    THEN Err("unknown variable direction in hierarchy block")
    ELSE LET name == read_cstring(data, dir_byte.v.offset) IN
    IF ~name.ok THEN name
    ELSE LET len == decode_varint_slice(data, name.v.offset) IN
    IF ~len.ok THEN len
    ELSE LET alias == decode_varint_slice(data, len.v.offset) IN
    IF ~alias.ok THEN alias
    ELSE LET is_alias == alias.v.value # 0
             handle == IF is_alias THEN alias.v.value ELSE st.current_handle + 1
             entry == [var_type |-> tag, direction |-> dir_byte.v.value,
                       name |-> name.v.value,
                       length |-> IF len.v.value = 0 THEN None ELSE Some(len.v.value),
                       handle |-> handle,
                       alias_of |-> IF is_alias THEN Some(alias.v.value) ELSE None,
                       scope |-> IF st.scope_stack = <<>> THEN None
                                 ELSE Some(Last(st.scope_stack)),
                       is_alias |-> is_alias]
         IN  Ok([offset |-> alias.v.offset,
                 st |-> [st EXCEPT
                           !.current_handle = IF is_alias THEN @ ELSE @ + 1,
                           !.variables = Append(@, entry),
                           !.items = Append(@, ItemVar(Len(st.variables)))]])

RECURSIVE ParseFrom(_, _, _)
\* the while loop of parse_stream (the writer emits no attributes; their arms
\* are read as a decode error here)
ParseFrom(data, offset, st) ==
    IF offset >= Len(data)
    THEN IF st.scope_stack # <<>>
         THEN Err("hierarchy stream ended with unterminated scopes")
         ELSE Ok([items |-> st.items, scopes |-> st.scopes, variables |-> st.variables])
    ELSE LET tag == data[offset + 1]
             step == IF tag = VcdScope THEN ParseScope(data, offset + 1, st)
                     ELSE IF tag = VcdUpscope
                     THEN IF st.scope_stack = <<>>
                          THEN Err("hierarchy stream attempted to upscope without matching scope")
                          ELSE Ok([offset |-> offset + 1,
                                   st |-> [st EXCEPT !.scope_stack = Front(@),
                                                     !.items = Append(@, ItemScopeEnd)]])
                     ELSE IF tag = GenAttrBegin \/ tag = GenAttrEnd
                     THEN Err("attributes are not modelled")
                     ELSE ParseVar(data, offset + 1, tag, st)
         IN  IF ~step.ok THEN step ELSE ParseFrom(data, step.v.offset, step.v.st)

\* HierarchyBlock::parse_stream
parse_stream(data) ==
    ParseFrom(data, 0, [items |-> <<>>, scopes |-> <<>>, variables |-> <<>>,
                        scope_stack |-> <<>>, current_handle |-> 0])

\* HierarchyBlock::decode_block on a block of type Hierarchy; the payload the writer
\* stores is raw, which decode_zlib_maybe returns as it is when the lengths agree
decode_block(block) ==
    LET section_length == read_u64_be(block, 0) IN
    IF ~section_length.ok THEN section_length
    ELSE IF section_length.v < 16
    THEN Err("hierarchy section shorter than required metadata")
    ELSE LET uncompressed_len == read_u64_be(block, 8)
             payload == read_exact(block, 16, section_length.v - 16)
         IN  IF ~uncompressed_len.ok THEN uncompressed_len
             ELSE IF ~payload.ok THEN payload
             ELSE IF Len(payload.v) # uncompressed_len.v
             THEN Err("hierarchy zlib decoding is not modelled")
             ELSE parse_stream(payload.v)

\* ------------------------------------------------------- FstWriter state
VARIABLES
    options,            \* WriterOptions: chain_compression, time_compression, wrap_zlib
    header_written,
    metadata_written,
    frame_state,        \* FrameState.entries
    scopes,             \* Vec<ScopeEntry>: the parent of each scope
    variables,          \* Vec<VarEntry>: length, handle, alias_of, scope, is_alias
    hierarchy_items,    \* Vec<HierarchyItem>
    hierarchy_block,    \* Option<EncodedHierarchy>: the hierarchy block written to the sink
    scope_stack,
    geometry,
    alias_of,
    alias_children,
    next_handle,
    header,             \* Option<Header>
    pending_changes,
    vc_blocks_written,
    output,             \* the VC blocks written to the sink, in file order
    finished,           \* finish() consumed the writer
    last,               \* outcome of the latest call: "ok", "emit_rejected", "rejected"
    emitted,            \* history: emit_change calls accepted since the latest flush
    flushed,            \* history: per flush that had accepted calls, those calls
    source,             \* FstReader.backend: the block at the cursor (tag, payload), or None
    position,           \* the stream position of FstReader.backend
    build,              \* the latest build_chains call: sections, chains, jobs, results,
                        \* and (history) the order in which the jobs completed
    current_vc_block,   \* FstReader.current_vc_block: Option<VcBlockMeta>
    changes,            \* Option<VcBlockChanges>: the iterator handed to the caller
    yielded,            \* history: the events the caller received from the iterator
    reader_pc,          \* "idle", "building", "iterating", "end", "failed"
    read_error          \* the error the reader returned to the caller, "" if none

writer_vars == <<options, header_written, metadata_written, frame_state, scopes, variables,
                 hierarchy_items, hierarchy_block, scope_stack,
                 geometry, alias_of, alias_children, next_handle, header, pending_changes,
                 vc_blocks_written, output>>

reader_vars == <<source, position, build, current_vc_block, changes, yielded, reader_pc,
                 read_error>>

metadata_vars == <<scopes, variables, hierarchy_items, scope_stack, geometry, alias_of,
                   alias_children, next_handle>>

vars == <<options, header_written, metadata_written, frame_state, scopes, variables,
          hierarchy_items, hierarchy_block, scope_stack,
          geometry, alias_of, alias_children, next_handle, header, pending_changes,
          vc_blocks_written, output, finished, last, emitted, flushed,
          source, position, build, current_vc_block, changes, yielded, reader_pc,
          read_error>>

\* -------------------------------------------------------------- inputs
\* the geometries add_variable is called with
Geoms == {Fixed(1)}

AllGeoms == {Fixed(1), Fixed(2), Real, Variable}

\* handle cap of the specification that uses AllGeoms
MaxHandlesK == 2

\* 1.5f64, bit pattern 0x3ff8000000000000
R15 == <<63, 248, 0, 0, 0, 0, 0, 0>>

\* the values emit_change is called with: '1', 'X', 'q', "10"
Values == {Bit(49), Bit(88), Bit(113), Vector(<<49, 48>>)}

\* the values of the specification that uses AllGeoms:
\* packed 1 (width 1), packed 10 (width 2), "z1", 1.5, b""
ValuesK == {PackedBits(1, <<128>>), PackedBits(2, <<128>>), Vector(<<122, 49>>),
            RealValue(R15), Bytes(<<>>)}

\* the geometries of the specification that reads values back: a vector of
\* nine bits takes two packed bytes
GeomsV == {Fixed(1), Fixed(9), Real, Variable}

\* "100000001"
V10 == <<49, 48, 48, 48, 48, 48, 48, 48, 49>>

\* "Z00000001"
VZ0 == <<90, 48, 48, 48, 48, 48, 48, 48, 49>>

\* nine bytes that are not UTF-8
VFF == <<255, 48, 48, 48, 48, 48, 48, 48, 49>>

\* the values of that specification: 'X', "100000001", "Z00000001", packed
\* 100000001 with the unused low bits set, nine bytes that are not text, 1.5, b""
ValuesV == {Bit(88), Vector(V10), Vector(VZ0), PackedBits(9, <<128, 255>>), Bytes(VFF),
            RealValue(R15), Bytes(<<>>)}

\* the WriterOptions a writer is built with: the gzip default, and raw sections
OptionSets == {[chain_compression |-> "Zlib", time_compression |-> "Zlib",
                wrap_zlib |-> FALSE],
               [chain_compression |-> "Raw", time_compression |-> "Raw",
                wrap_zlib |-> FALSE]}

\* the WriterOptions of the specification that looks at the finished file:
\* the default, and the default inside the outer envelope
FileOptionSets == {[chain_compression |-> "Zlib", time_compression |-> "Zlib",
                    wrap_zlib |-> FALSE],
                   [chain_compression |-> "Zlib", time_compression |-> "Zlib",
                    wrap_zlib |-> TRUE]}

TimeZeros == {0}

\* Header.vc_section_count as the caller of write_header passes it:
\* Header::default()
SectionCounts == {0}

\* the counts of the specification that looks at the finished file: the
\* default, and the count of a caller that expects one block
FileSectionCounts == {0, 1}

\* the name begin_scope is called with: "s"
ScopeName == <<115>>

\* the name add_variable and add_alias are called with: "v"
VarName == <<118>>

\* ---------------------------------------------------------------- Init
\* FstWriter::with_backend
WriterInit(opts) ==
    /\ options = opts
    /\ header_written = FALSE
    /\ metadata_written = FALSE
    /\ frame_state = <<>>
    /\ scopes = <<>>
    /\ variables = <<>>
    /\ hierarchy_items = <<>>
    /\ hierarchy_block = None
    /\ scope_stack = <<>>
    /\ geometry = <<>>
    /\ alias_of = <<>>
    /\ alias_children = <<>>
    /\ next_handle = 1
    /\ header = None
    /\ pending_changes = <<>>
    /\ vc_blocks_written = 0
    /\ output = <<>>
    /\ finished = FALSE
    /\ last = "ok"
    /\ emitted = <<>>
    /\ flushed = <<>>

\* no reader is open
ReaderIdle ==
    /\ source = None
    /\ position = 0
    /\ build = None
    /\ current_vc_block = None
    /\ changes = None
    /\ yielded = <<>>
    /\ reader_pc = "idle"
    /\ read_error = ""

Init == \E opts \in OptionSets : WriterInit(opts) /\ ReaderIdle

Rejected(code) ==
    /\ last' = code
    /\ UNCHANGED <<options, variables, hierarchy_items, hierarchy_block, header_written, metadata_written, frame_state, scopes,
                   scope_stack, geometry, alias_of, alias_children, next_handle, header,
                   pending_changes, vc_blocks_written, output, finished, emitted, flushed>>

\* a check that lets metadata calls through after the header
always_mutable == TRUE

\* FstWriter::ensure_metadata_mutable
ensure_metadata_mutable == ~metadata_written

RECURSIVE ResolveFrom(_, _, _, _)
\* the for loop of resolve_canonical_handle with `left` iterations to go
ResolveFrom(aliases, handle, left, next) ==
    IF left = 0 THEN Err("alias resolution cycle detected")
    ELSE LET alias == IF handle >= 1 /\ handle <= Len(aliases) THEN aliases[handle] ELSE None
         IN  IF alias = None THEN Ok(handle)
             ELSE IF alias[1] # handle THEN ResolveFrom(aliases, alias[1], left - 1, next)
             ELSE Err("alias handle cannot refer to itself")

\* a resolution that stops at the handle it is given
unresolved_handle(aliases, handle, next) == Ok(handle)

\* FstWriter::resolve_canonical_handle
resolve_canonical_handle(aliases, handle, next) ==
    IF handle = 0 \/ handle >= next THEN Err("handle is out of range")
    ELSE ResolveFrom(aliases, handle, next, next)

\* FstWriter::begin_scope
BeginScope ==
    /\ ~finished
    /\ metadata_written \/ Len(scopes) < MaxScopes
    /\ IF ~ensure_metadata_mutable THEN Rejected("rejected")
       ELSE /\ scopes' = Append(scopes, ScopeEntry(VcdModule, ScopeName,
                                                    IF scope_stack = <<>> THEN None
                                                    ELSE Some(Last(scope_stack))))
            /\ hierarchy_items' = Append(hierarchy_items, ItemScopeBegin(Len(scopes)))
            /\ scope_stack' = Append(scope_stack, Len(scopes))
            /\ last' = "ok"
            /\ UNCHANGED <<options, variables, hierarchy_block, header_written, metadata_written, frame_state, geometry,
                           alias_of, alias_children, next_handle, header, pending_changes,
                           vc_blocks_written, output, finished, emitted, flushed>>

\* FstWriter::end_scope
EndScope ==
    /\ ~finished
    /\ IF ~ensure_metadata_mutable THEN Rejected("rejected")
       ELSE IF scope_stack = <<>> THEN Rejected("rejected")
       ELSE /\ scope_stack' = Front(scope_stack)
            /\ hierarchy_items' = Append(hierarchy_items, ItemScopeEnd)
            /\ last' = "ok"
            /\ UNCHANGED <<options, variables, hierarchy_block, header_written, metadata_written, frame_state, scopes,
                           geometry, alias_of, alias_children, next_handle, header,
                           pending_changes, vc_blocks_written, output, finished, emitted,
                           flushed>>

\* a handle counter that leaves a gap after each handle
next_with_gap(handle) == handle + 2

\* self.next_handle.checked_add(1)
next_after(handle) == handle + 1

\* FstWriter::add_variable
AddVariable(geom, cap) ==
    /\ ~finished
    /\ metadata_written \/ scope_stack = <<>> \/ next_handle <= cap
    /\ IF ~ensure_metadata_mutable THEN Rejected("rejected")
       ELSE IF scope_stack = <<>> THEN Rejected("rejected")
       ELSE LET handle == next_handle IN
            /\ next_handle' = next_after(handle)
            /\ geometry' = Append(geometry, geom)
            /\ alias_of' = Append(alias_of, None)
            /\ alias_children' = Append(alias_children, <<>>)
            /\ variables' = Append(variables,
                                   VarEntry(VarName, var_length(geom), handle, None,
                                            Some(Last(scope_stack)), FALSE))
            /\ hierarchy_items' = Append(hierarchy_items, ItemVar(Len(variables)))
            /\ frame_state' = register_handle(frame_state, handle, geom)
            /\ last' = "ok"
            /\ UNCHANGED <<options, hierarchy_block, header_written, metadata_written, scopes, scope_stack,
                           header, pending_changes, vc_blocks_written, output, finished,
                           emitted, flushed>>

\* FstWriter::add_alias
AddAlias(target_handle, cap) ==
    /\ ~finished
    /\ \/ metadata_written
       \/ scope_stack = <<>>
       \/ target_handle = 0
       \/ target_handle >= next_handle
       \/ next_handle <= cap
    /\ IF ~ensure_metadata_mutable THEN Rejected("rejected")
       ELSE IF target_handle = 0 \/ target_handle >= next_handle THEN Rejected("rejected")
       ELSE IF scope_stack = <<>> THEN Rejected("rejected")
       ELSE LET resolved == resolve_canonical_handle(alias_of, target_handle, next_handle) IN
            IF ~resolved.ok THEN Rejected("rejected")
            ELSE IF resolved.v > Len(geometry) THEN Rejected("rejected")
            ELSE LET canonical == resolved.v
                     geom == geometry[canonical]
                     handle == next_handle
                 IN  /\ next_handle' = next_after(handle)
                     /\ geometry' = Append(geometry, geom)
                     /\ alias_of' = Append(alias_of, Some(canonical))
                     /\ alias_children' =
                            [Append(alias_children, <<>>) EXCEPT ![canonical] = Append(@, handle)]
                     /\ variables' = Append(variables,
                                            VarEntry(VarName, var_length(geom), handle,
                                                     Some(canonical),
                                                     Some(Last(scope_stack)), TRUE))
                     /\ hierarchy_items' = Append(hierarchy_items, ItemVar(Len(variables)))
                     /\ frame_state' = clone_from(register_handle(frame_state, handle, geom),
                                                  canonical, handle)
                     /\ last' = "ok"
                     /\ UNCHANGED <<options, hierarchy_block, header_written, metadata_written, scopes,
                                    scope_stack, header, pending_changes, vc_blocks_written,
                                    output, finished, emitted, flushed>>

\* FstWriter::write_hierarchy_block: the bytes written after the block tag
\* (emit_stream cannot fail on the writer's own items)
write_hierarchy_block == encode_block(hierarchy_items, scopes, variables).v

\* FstWriter::write_header
WriteHeader(time_zero, vc_section_count) ==
    /\ ~finished
    /\ IF header_written THEN Rejected("rejected")
       ELSE IF scope_stack # <<>> THEN Rejected("rejected")
       ELSE /\ header_written' = TRUE
            /\ metadata_written' = TRUE
            /\ header' = Some([scope_count |-> Len(scopes),
                               var_count |-> Len(variables),
                               max_handle |-> IF next_handle >= 1 THEN next_handle - 1 ELSE 0,
                               vc_section_count |-> vc_section_count,
                               time_zero |-> time_zero])
            /\ hierarchy_block' = Some(write_hierarchy_block)
            /\ last' = "ok"
            /\ UNCHANGED <<options, variables, hierarchy_items, frame_state, scopes, scope_stack, geometry, alias_of,
                           alias_children, next_handle, pending_changes, vc_blocks_written,
                           output, finished, emitted, flushed>>

\* BlockType::VcData as u8
BlockTypeVcData == 1

\* the checks of emit_change before anything is buffered
emit_change_result(handle, value) ==
    IF ~header_written
    THEN Err("value changes cannot be emitted before the header is written")
    ELSE IF handle = 0 \/ handle >= next_handle THEN Err("handle is out of range")
    ELSE LET resolved == resolve_canonical_handle(alias_of, handle, next_handle) IN
         IF ~resolved.ok THEN resolved
         ELSE IF resolved.v > Len(geometry) THEN Err("no geometry recorded")
         ELSE LET owned == convert_value(value, geometry[resolved.v]) IN
              IF ~owned.ok THEN owned
              ELSE Ok([canonical |-> resolved.v, owned |-> owned.v])

RECURSIVE UpdateAll(_, _, _)
\* frame_state.update for each handle of a list
UpdateAll(entries, handles, value) ==
    IF handles = <<>> THEN entries
    ELSE UpdateAll(update(entries, Head(handles), value), Tail(handles), value)

\* frame updates that leave the alias children out
canonical_only(entries, canonical, value, children) == update(entries, canonical, value)

\* the frame updates of emit_change: the canonical, then its alias children
frame_after_emit(entries, canonical, value, children) ==
    UpdateAll(update(entries, canonical, value),
              IF canonical <= Len(children) THEN children[canonical] ELSE <<>>, value)

\* an error return that has already buffered a change for the handle
EmitBuffered(timestamp, handle) ==
    /\ last' = "emit_rejected"
    /\ pending_changes' = Append(pending_changes,
                                 PendingChange(timestamp, handle, OwnedBit(Zero)))
    /\ UNCHANGED <<options, variables, hierarchy_items, hierarchy_block, header_written, metadata_written, frame_state, scopes,
                   scope_stack, geometry, alias_of, alias_children, next_handle, header,
                   vc_blocks_written, output, finished, emitted, flushed>>

\* an early error return of emit_change
EmitRejected(timestamp, handle) == Rejected("emit_rejected")

TotalAccepted == Len(Concat(flushed)) + Len(emitted)

\* FstWriter::emit_change
EmitChange(timestamp, handle, value) ==
    /\ ~finished
    /\ TotalAccepted < MaxChanges
    /\ LET r == emit_change_result(handle, value) IN
       IF ~r.ok THEN EmitRejected(timestamp, handle)
       ELSE /\ pending_changes' = Append(pending_changes,
                                         PendingChange(timestamp, r.v.canonical, r.v.owned))
            /\ frame_state' = frame_after_emit(frame_state, r.v.canonical, r.v.owned,
                                               alias_children)
            /\ emitted' = Append(emitted, [timestamp |-> timestamp, handle |-> handle,
                                           value |-> value])
            /\ last' = "ok"
            /\ UNCHANGED <<options, variables, hierarchy_items, hierarchy_block, header_written, metadata_written, scopes, scope_stack,
                           geometry, alias_of, alias_children, next_handle, header,
                           vc_blocks_written, output, finished, flushed>>

\* the block flush_value_changes writes: tag, section length, payload
VcBlockRecord(payload) ==
    [tag |-> BlockTypeVcData, section_length |-> Len(payload) + 8, payload |-> payload]

\* a flush that leaves the buffer as it found it
PendingKept(pending) == pending

\* the changes a flush leaves buffered
PendingAfterFlush(pending) == <<>>

\* a flush without the early return
never_returns_early(pending) == FALSE

\* the early return of flush_value_changes
nothing_pending(pending) == pending = <<>>

\* FstWriter::flush_value_changes followed by the history update of the caller
FlushValueChanges(consume) ==
    IF nothing_pending(pending_changes)
    THEN /\ last' = "ok"
         /\ finished' = consume
         /\ emitted' = <<>>
         /\ flushed' = IF emitted = <<>> THEN flushed ELSE Append(flushed, emitted)
         /\ UNCHANGED writer_vars
    ELSE LET payload == build_vc_block(pending_changes, frame_state, geometry, alias_of,
                                       next_handle, options)
         IN  IF ~payload.ok
             THEN /\ pending_changes' = <<>>
                  /\ last' = "rejected"
                  /\ finished' = consume
                  /\ emitted' = <<>>
                  /\ UNCHANGED <<options, variables, hierarchy_items, hierarchy_block, header_written, metadata_written, frame_state,
                                 scopes, scope_stack, geometry, alias_of, alias_children,
                                 next_handle, header, vc_blocks_written, output, flushed>>
             ELSE /\ pending_changes' = PendingAfterFlush(pending_changes)
                  /\ output' = Append(output, VcBlockRecord(payload.v))
                  /\ vc_blocks_written' = vc_blocks_written + 1
                  /\ last' = "ok"
                  /\ finished' = consume
                  /\ emitted' = <<>>
                  /\ flushed' = IF emitted = <<>> THEN flushed ELSE Append(flushed, emitted)
                  /\ UNCHANGED <<options, variables, hierarchy_items, hierarchy_block, header_written, metadata_written, frame_state,
                                 scopes, scope_stack, geometry, alias_of, alias_children,
                                 next_handle, header>>

\* the bytes flush_value_changes writes for a block: three write_all calls
block_bytes(record) ==
    <<record.tag>> \o U64BE(record.section_length) \o record.payload

\* FstWriter::flush
Flush == ~finished /\ FlushValueChanges(FALSE)

\* FstWriter::finish
Finish == ~finished /\ FlushValueChanges(TRUE)

\* --------------------------------------------------------- specifications
NextOf(geoms, cap, values, counts, zeros) ==
    \/ BeginScope /\ UNCHANGED reader_vars
    \/ EndScope /\ UNCHANGED reader_vars
    \/ \E geom \in geoms : AddVariable(geom, cap) /\ UNCHANGED reader_vars
    \/ \E target \in 0..(cap + 1) : AddAlias(target, cap) /\ UNCHANGED reader_vars
    \/ \E time_zero \in zeros, vc_section_count \in counts :
           WriteHeader(time_zero, vc_section_count) /\ UNCHANGED reader_vars
    \/ \E timestamp \in 0..MaxTime, handle \in 0..(cap + 1), value \in values :
           EmitChange(timestamp, handle, value) /\ UNCHANGED reader_vars
    \/ Flush /\ UNCHANGED reader_vars
    \/ Finish /\ UNCHANGED reader_vars

Next == NextOf(Geoms, MaxHandles, Values, SectionCounts, TimeZeros)

Spec == Init /\ [][Next]_vars

NextKinds == NextOf(AllGeoms, MaxHandlesK, ValuesK, SectionCounts, TimeZeros)

\* the same writer called with every kind of geometry, on fewer handles
SpecKinds == Init /\ [][NextKinds]_vars

NextValues == NextOf(GeomsV, MaxHandlesK, ValuesV, SectionCounts, TimeZeros)

\* the same writer called with values of every form
SpecValues == Init /\ [][NextValues]_vars

\* Header.time_zero of the specification that compares timestamps
ShiftedTimeZeros == {0, 2}

NextTimes == NextOf(Geoms, MaxHandlesK, Values, SectionCounts, ShiftedTimeZeros)

\* the same writer with a header whose time_zero is not 0
SpecTimes == Init /\ [][NextTimes]_vars

\* ------------------------------------------------------ the finished file
\* BlockType::Header as u8
BlockTypeHeader == 0

\* BlockType::Blackout as u8
BlockTypeBlackout == 2

\* BlockType::Geometry as u8
BlockTypeGeometry == 3

\* BlockType::Hierarchy as u8
BlockTypeHierarchy == 4

\* BlockType::ZWrapper as u8
BlockTypeZWrapper == 254

\* BlockType::Skip as u8
BlockTypeSkip == 255

\* the bytes BlockType::try_from accepts
BlockTypes == {0, 1, 2, 3, 4, 5, 6, 7, 8, 254, 255}

\* the tags of value-change blocks: VcData, VcDataDynAlias, VcDataDynAlias2
VcBlockTypes == {1, 5, 8}

\* Header.section_length as write_header sets it
HeaderSectionLength == 329

\* const VERSION_FIELD_LEN
VERSION_FIELD_LEN == 128

\* const DATE_FIELD_LEN
DATE_FIELD_LEN == 119

\* std::f64::consts::E.to_bits().to_be_bytes(): 0x4005BF0A8B145769
E_BITS == <<64, 5, 191, 10, 139, 20, 87, 105>>

\* Header::default().version: "fst-format"
DefaultVersion == <<102, 115, 116, 45, 102, 111, 114, 109, 97, 116>>

\* WriterOptions::default().timescale_exponent as u8: -9
TimescaleByte == 247

\* fn write_cstring of writer/mod.rs on a zeroed field of len bytes
write_cstring_field(len, value) ==
    LET n == IF Len(value) < len - 1 THEN Len(value) ELSE len - 1 IN
    SubSeq(value, 1, n) \o Repeat(0, len - n)

\* FstWriter::write_header_block; the caller's Header is Header::default()
\* except for time_zero and vc_section_count
write_header_block(h) ==
    <<BlockTypeHeader>> \o U64BE(HeaderSectionLength)
    \o U64BE(0) \o U64BE(0) \o E_BITS \o U64BE(0)
    \o U64BE(h.scope_count) \o U64BE(h.var_count) \o U64BE(h.max_handle)
    \o U64BE(h.vc_section_count)
    \o <<TimescaleByte>>
    \o write_cstring_field(VERSION_FIELD_LEN, DefaultVersion)
    \o write_cstring_field(DATE_FIELD_LEN, <<>>)
    \o <<0>> \o U64BE(h.time_zero)

\* encode_varint(entry.to_raw()); 0xFFFF_FFFF is kept as its five varint bytes
RawVarint(entry) ==
    IF entry.k = "Variable" THEN <<255, 255, 255, 255, 15>>
    ELSE IF entry.k = "Real" THEN <<0>>
    ELSE encode_varint(entry.n)

\* FstWriter::write_geometry_block(false): GeomInfo::encode_block and write_to
write_geometry_block(geom) ==
    LET raw == Concat([h \in 1..Len(geom) |-> RawVarint(geom[h])]) IN
    <<BlockTypeGeometry>> \o U64BE(Len(raw) + 24) \o U64BE(Len(raw)) \o U64BE(Len(geom))
    \o raw

\* the bytes the writer has handed to its OutputBackend: the three blocks of
\* write_header, then the value-change blocks
written_bytes ==
    IF header = None THEN <<>>
    ELSE write_header_block(header[1]) \o write_geometry_block(geometry)
         \o <<BlockTypeHierarchy>> \o hierarchy_block[1]
         \o Concat([i \in 1..Len(output) |-> block_bytes(output[i])])

\* OutputBackend::into_inner: the bytes of the sink finish returns.  GzEncoder
\* is outside the repository and modelled by the codec of zlib_compress.
into_inner(inner, opts) ==
    IF ~opts.wrap_zlib THEN inner
    ELSE LET compressed == zlib_compress(inner)
             payload == U64BE(Len(inner)) \o U64BE(Len(compressed)) \o compressed
         IN  <<BlockTypeZWrapper>> \o U64BE(Len(payload) + 8) \o payload

\* read_cstring: the bytes of a field before its first NUL
read_cstring_field(buf) ==
    LET nuls == {i \in 1..Len(buf) : buf[i] = 0}
        nul == IF nuls = {} THEN Len(buf) + 1 ELSE CHOOSE i \in nuls : \A j \in nuls : i <= j
    IN  SubSeq(buf, 1, nul - 1)

\* Header::read; the result carries the stream position after the header
Header_read(stream) ==
    LET tag == read_exact(stream, 0, 1)
        fields == read_exact(stream, 1, 329)
    IN
    IF ~tag.ok THEN tag
    ELSE IF tag.v[1] \notin BlockTypes THEN Err("unexpected first block type")
    ELSE IF tag.v[1] # BlockTypeHeader THEN Err("expected header block (0)")
    ELSE IF ~fields.ok THEN fields
    ELSE IF SubSeq(fields.v, 25, 32) \notin {E_BITS, Reverse(E_BITS)}
    THEN Err("unexpected endian test marker")
    ELSE Ok([header |-> [section_length |-> U64FromBE(SubSeq(fields.v, 1, 8)),
                         start_time |-> U64FromBE(SubSeq(fields.v, 9, 16)),
                         end_time |-> U64FromBE(SubSeq(fields.v, 17, 24)),
                         memory_used |-> U64FromBE(SubSeq(fields.v, 33, 40)),
                         scope_count |-> U64FromBE(SubSeq(fields.v, 41, 48)),
                         var_count |-> U64FromBE(SubSeq(fields.v, 49, 56)),
                         max_handle |-> U64FromBE(SubSeq(fields.v, 57, 64)),
                         vc_section_count |-> U64FromBE(SubSeq(fields.v, 65, 72)),
                         timescale_exponent |-> fields.v[73],
                         version |-> read_cstring_field(SubSeq(fields.v, 74, 201)),
                         date |-> read_cstring_field(SubSeq(fields.v, 202, 320)),
                         file_type |-> fields.v[321],
                         time_zero |-> U64FromBE(SubSeq(fields.v, 322, 329))],
             pos |-> 330])

RECURSIVE GeomEntriesFrom(_, _, _)
\* the for loop of GeomInfo::decode_block over max_handle varints
GeomEntriesFrom(slice, left, entries) ==
    IF left = 0
    THEN IF slice # <<>> THEN Err("geometry payload contains trailing data")
         ELSE Ok(entries)
    ELSE IF Len(slice) >= 5 /\ SubSeq(slice, 1, 5) = <<255, 255, 255, 255, 15>>
    THEN GeomEntriesFrom(SubSeq(slice, 6, Len(slice)), left - 1, Append(entries, Variable))
    ELSE LET r == decode_varint_with_len(slice) IN
         IF ~r.ok THEN Err("unexpected end of input while decoding varint")
         ELSE GeomEntriesFrom(SubSeq(slice, r.consumed + 1, Len(slice)), left - 1,
                  Append(entries, IF r.value = 0 THEN Real ELSE Fixed(r.value)))

\* GeomInfo::decode_block with the reader at pos, after the section length
GeomInfo_decode_block(stream, pos, section_length) ==
    IF section_length < 24 THEN Err("geometry section shorter than required metadata")
    ELSE
    LET uncompressed_len == read_u64_be(stream, pos)
        max_handle == read_u64_be(stream, pos + 8)
        compressed_len == section_length - 24
        payload == read_exact(stream, pos + 16, compressed_len)
    IN
    IF ~uncompressed_len.ok THEN uncompressed_len
    ELSE IF ~max_handle.ok THEN max_handle
    ELSE IF ~payload.ok THEN payload
    ELSE
    LET raw == IF compressed_len = uncompressed_len.v THEN Ok(payload.v)
               ELSE zlib_decompress(payload.v)
    IN
    IF ~raw.ok THEN raw
    ELSE IF Len(raw.v) # uncompressed_len.v
    THEN Err("geometry decompression length mismatch with header")
    ELSE GeomEntriesFrom(raw.v, max_handle.v, <<>>)

RECURSIVE MetadataFrom(_, _)
\* the loop of parse_preamble, and of load_metadata_until_next_vc and the
\* metadata arms of next_vc_block (eager_geometry is on): it stops in front
\* of a value-change block or at the end of the stream.  Blackout and lz4
\* hierarchy blocks, which the writer never produces, are not decoded.
MetadataFrom(stream, reader) ==
    IF reader.pos >= Len(stream) THEN Ok(reader)
    ELSE
    LET tag == stream[reader.pos + 1]
        section_length == read_u64_be(stream, reader.pos + 1)
    IN
    IF tag \notin BlockTypes THEN Err("unknown block type")
    ELSE IF tag \in VcBlockTypes THEN Ok(reader)
    ELSE IF tag = BlockTypeZWrapper THEN Err("zlib wrapper blocks are not yet supported")
    ELSE IF tag = BlockTypeHeader THEN Err("duplicate header block encountered")
    ELSE IF ~section_length.ok THEN section_length
    ELSE IF tag = BlockTypeGeometry
    THEN LET geom == GeomInfo_decode_block(stream, reader.pos + 9, section_length.v) IN
         IF section_length.v < 8 THEN Err("section length shorter than required header")
         ELSE IF ~geom.ok THEN geom
         ELSE MetadataFrom(stream, [reader EXCEPT !.geometry = Some(geom.v),
                                                  !.pos = reader.pos + 1 + section_length.v])
    ELSE IF tag = BlockTypeHierarchy
    THEN LET block == read_exact(stream, reader.pos + 1, section_length.v)
             hier == decode_block(block.v)
         IN  IF ~block.ok THEN block
             ELSE IF ~hier.ok THEN hier
             ELSE MetadataFrom(stream, [reader EXCEPT !.hierarchy = Some(hier.v),
                                                      !.pos = reader.pos + 1 + section_length.v])
    ELSE IF tag = BlockTypeSkip
    THEN IF section_length.v < 8 THEN Err("section length shorter than required header")
         ELSE MetadataFrom(stream, [reader EXCEPT !.pos = reader.pos + 1 + section_length.v])
    ELSE Err("blackout and lz4 hierarchy blocks are not modelled")

\* FstReader::with_backend: Header::read, then parse_preamble
with_backend(stream) ==
    LET head == Header_read(stream) IN
    IF ~head.ok THEN head
    ELSE MetadataFrom(stream, [header |-> head.v.header, geometry |-> None,
                               hierarchy |-> None, pos |-> head.v.pos])

RECURSIVE ReadBlocksFrom(_, _, _)
\* next_value_changes called until it returns None or an error, every
\* iterator it returns drained: the events, and the error if one came up
ReadBlocksFrom(stream, reader, events) ==
    LET before == MetadataFrom(stream, reader) IN
    IF ~before.ok THEN [events |-> events, err |-> before.err]
    ELSE IF before.v.pos >= Len(stream) THEN [events |-> events, err |-> ""]
    ELSE
    LET block_type == stream[before.v.pos + 1]
        section_length == read_u64_be(stream, before.v.pos + 1)
        section_start == before.v.pos + 9
    IN
    IF ~section_length.ok THEN [events |-> events, err |-> section_length.err]
    ELSE IF section_length.v < 8
    THEN [events |-> events, err |-> "section length shorter than required header"]
    ELSE
    LET payload_len == section_length.v - 8
        meta == parse_vc_block(stream, block_type, section_start, payload_len)
        after == MetadataFrom(stream, [before.v EXCEPT !.pos = section_start + payload_len])
    IN
    IF ~meta.ok THEN [events |-> events, err |-> meta.err]
    ELSE IF ~after.ok THEN [events |-> events, err |-> after.err]
    ELSE IF after.v.geometry = None
    THEN [events |-> events,
          err |-> "geometry metadata is required before iterating value changes"]
    ELSE
    LET it == VcBlockChanges_new(meta.v, after.v.geometry[1], after.v.header.time_zero) IN
    IF ~it.ok THEN [events |-> events, err |-> it.err]
    ELSE LET got == CollectFrom(it.v, <<>>) IN
         IF got.err # "" THEN [events |-> events \o got.events, err |-> got.err]
         ELSE ReadBlocksFrom(stream, after.v, events \o got.events)

\* a reader opened on a stream and read to its end: the header, the geometry
\* and the hierarchy it holds after opening, and the events of every block
read_file(stream) ==
    LET reader == with_backend(stream) IN
    IF ~reader.ok THEN reader
    ELSE Ok([header |-> reader.v.header, geometry |-> reader.v.geometry,
             hierarchy |-> reader.v.hierarchy,
             changes |-> ReadBlocksFrom(stream, reader.v, <<>>)])

\* flush_value_changes when the sink rejects the write_all of the payload:
\* the tag and the section length went through, std::mem::take has emptied
\* the buffer, and the block counter is not reached.  The Wrapped backend
\* writes to a Vec and does not fail.
SinkRejects(consume) ==
    /\ ~finished
    /\ ~options.wrap_zlib
    /\ pending_changes # <<>>
    /\ LET payload == build_vc_block(pending_changes, frame_state, geometry, alias_of,
                                     next_handle, options)
       IN  /\ payload.ok
           /\ output' = Append(output, [tag |-> BlockTypeVcData,
                                        section_length |-> Len(payload.v) + 8,
                                        payload |-> <<>>])
    /\ pending_changes' = <<>>
    /\ last' = "sink_error"
    /\ finished' = consume
    /\ UNCHANGED <<options, variables, hierarchy_items, hierarchy_block, header_written,
                   metadata_written, frame_state, scopes, scope_stack, geometry, alias_of,
                   alias_children, next_handle, header, vc_blocks_written, emitted,
                   flushed>>

\* FstWriter::flush returning an I/O error
FlushSinkError == SinkRejects(FALSE) /\ UNCHANGED reader_vars

\* FstWriter::finish returning an I/O error
FinishSinkError == SinkRejects(TRUE) /\ UNCHANGED reader_vars

InitFile == \E opts \in FileOptionSets : WriterInit(opts) /\ ReaderIdle

NextFile ==
    \/ NextOf(Geoms, MaxHandlesK, Values, FileSectionCounts, TimeZeros)
    \/ FlushSinkError
    \/ FinishSinkError

\* the writer with and without the outer envelope, on a sink that may reject
\* a write, up to the file finish returns
SpecFile == InitFile /\ [][NextFile]_vars

\* ------------------------------------------- a reader on a foreign block
\* the number of index entries of the block that is read
MaxSlots == 3

\* the raw chains of the block (one-bit handles): '1' at the first time point;
\* '1' then '0' at the next; three times '1' with delta 0; '1', '0', then a
\* byte that ends inside its varint
ReadChains == {<<2>>, <<2, 4>>, <<2, 2, 2>>, <<2, 4, 128>>}

\* the time points of the block
ReadTimePoints == <<0, 1>>

\* an index entry without a chain
InEmpty == [k |-> "Empty", target |-> 0, stored_len |-> 0, bytes |-> <<>>]

\* an alias entry for handle target (1-based)
InAlias(target) == [k |-> "Alias", target |-> target, stored_len |-> 0, bytes |-> <<>>]

\* a chain stored as encode_chain_payload stores it
InChain(pack_type, raw) ==
    LET enc == encode_chain_payload(pack_type, raw) IN
    [k |-> "Data", target |-> 0, stored_len |-> enc.stored_len, bytes |-> enc.bytes]

\* a chain whose stored bytes do not decompress to stored_len bytes
InCorrupt == [k |-> "Data", target |-> 0, stored_len |-> 2, bytes |-> <<5, 5, 5>>]

\* what a handle of the block may be: without a chain, an alias of any handle
\* (also of itself, of a later one, or of one past the end), or a chain
SlotInputs(pack_type) ==
    {InEmpty, InCorrupt} \cup {InAlias(t) : t \in 1..(MaxSlots + 1)}
    \cup {InChain(pack_type, raw) : raw \in ReadChains}

RECURSIVE ForeignChainsFrom(_, _, _, _)
\* the chain buffer and the index entries of the block, laid out as
\* build_vc_block lays them out
ForeignChainsFrom(inputs, i, chain_buffer, entries) ==
    IF i > Len(inputs) THEN [chain_buffer |-> chain_buffer, entries |-> entries]
    ELSE IF inputs[i].k = "Data"
    THEN ForeignChainsFrom(inputs, i + 1,
             chain_buffer \o encode_varint(inputs[i].stored_len) \o inputs[i].bytes,
             Append(entries, EntryData(Len(chain_buffer))))
    ELSE IF inputs[i].k = "Alias"
    THEN ForeignChainsFrom(inputs, i + 1, chain_buffer,
             Append(entries, EntryAlias(inputs[i].target)))
    ELSE ForeignChainsFrom(inputs, i + 1, chain_buffer, Append(entries, EntryEmpty))

\* a block in the layout of build_vc_block with the given index and chains
foreign_block(pack_type, inputs) ==
    LET laid == ForeignChainsFrom(inputs, 1, <<>>, <<>>)
        index_bytes == encode_chain_index(laid.entries)
        time_data == TimeDataFrom(ReadTimePoints, 1, 0, <<>>)
    IN  VcBlockRecord(assemble_payload(ReadTimePoints[1], Last(ReadTimePoints), 0,
                          encode_frame_section(<<>>), 0, Len(inputs), pack_type,
                          laid.chain_buffer, index_bytes.v,
                          encode_time_section(time_data.v, Len(ReadTimePoints), FALSE)))

\* the geometry block the reader loaded: every handle is one bit wide
ReadGeometry == [h \in 1..(MaxSlots + 1) |-> Fixed(1)]

\* the block an FstWriter writes after add_variable, add_alias(1), add_variable
\* and emit_change(0, 3, '1'): handle 1, the canonical of alias 2, has no change
writer_block(opts) ==
    LET registered == register_handle(
                          clone_from(register_handle(register_handle(<<>>, 1, Fixed(1)),
                                                     2, Fixed(1)), 1, 2),
                          3, Fixed(1))
        children == <<<<2>>, <<>>, <<>>>>
    IN  VcBlockRecord(build_vc_block(<<PendingChange(0, 3, OwnedBit(One))>>,
                                     frame_after_emit(registered, 3, OwnedBit(One), children),
                                     <<Fixed(1), Fixed(1), Fixed(1)>>,
                                     <<None, Some(1), None>>, 4, opts).v)

\* a reader opened on one block, foreign or written by FstWriter (the writer of
\* the state is left as constructed)
InitReader ==
    \E opts \in OptionSets :
        /\ WriterInit(opts)
        /\ \/ \E inputs \in [1..MaxSlots -> SlotInputs(chain_pack_type(opts))] :
                  source = Some(foreign_block(chain_pack_type(opts), inputs))
           \/ source = Some(writer_block(opts))
        /\ position = 0
        /\ build = None
        /\ current_vc_block = None
        /\ changes = None
        /\ yielded = <<>>
        /\ reader_pc = "idle"
        /\ read_error = ""

\* the call returns Err(err)
ReadFailed(err) ==
    /\ reader_pc' = "failed"
    /\ read_error' = err
    /\ build' = None

\* the call does not return: the thread panics with message err
ReadPanicked(err) ==
    /\ reader_pc' = "panicked"
    /\ read_error' = err
    /\ build' = None

\* build_chains up to its queue of jobs, on parsed sections: the chain buffer
\* is the last thing read from the backend
QueueJobs(sections, first) ==
    /\ position' = 9 + sections.chain_start + Len(sections.chain_buffer)
    /\ IF ~first.ok THEN ReadFailed(first.err)
       ELSE /\ build' = Some([sections |-> sections, chains |-> first.v.chains,
                              jobs |-> first.v.jobs,
                              results |-> [j \in 1..Len(first.v.jobs) |-> None],
                              order |-> <<>>])
            /\ reader_pc' = "building"
            /\ UNCHANGED read_error

\* next_vc_block after parse_vc_block has read the sections
ParsedSections(sections) ==
    IF ~sections.ok
    THEN /\ IF IsPanic(sections) THEN ReadPanicked(sections.err)
            ELSE ReadFailed(sections.err)
         /\ UNCHANGED position
    ELSE QueueJobs(sections.v,
             ChainJobsFrom(sections.v.chain_buffer, sections.v.chain_start,
                           sections.v.index, 1,
                           [i \in 1..Len(sections.v.index) |-> None], <<>>))

\* FstReader::next_value_changes up to the point where build_chains has queued
\* its jobs: the tag and the section length are read and the sections parsed
NextValueChangesCall ==
    /\ reader_pc = "idle"
    /\ source # None
    /\ \E overflow_checks \in BOOLEAN :
           ParsedSections(parse_vc_sections(source[1].payload, source[1].tag, 0,
                                            Len(source[1].payload), overflow_checks))
    /\ UNCHANGED <<source, current_vc_block, changes, yielded>>
    /\ UNCHANGED <<writer_vars, finished, last, emitted, flushed>>

\* a job running on a worker that takes every job's input from the first job
first_job(jobs, j) == jobs[1]

\* the job a worker runs: jobs.into_par_iter() hands job j its own ChainJob
job_of(jobs, j) == jobs[j]

\* one decompression job runs to its end, on any worker, in any order; it
\* owns a slice of the chain buffer and nothing of the backend
RunJob(j) ==
    /\ reader_pc = "building"
    /\ j \in 1..Len(build[1].jobs)
    /\ build[1].results[j] = None
    /\ build' = Some([build[1] EXCEPT !.results[j] =
                                           Some(decompress(build[1].sections.header.pack_type,
                                                           job_of(build[1].jobs, j))),
                                       !.order = Append(@, j)])
    /\ UNCHANGED <<source, position, current_vc_block, changes, yielded, reader_pc,
                   read_error>>
    /\ UNCHANGED <<writer_vars, finished, last, emitted, flushed>>

\* the jobs that ran and failed
failed_jobs(results) == {j \in 1..Len(results) : results[j] # None /\ ~results[j][1].ok}

\* VcBlockMeta::changes on the block just stored
BlockChangesBuilt(it) ==
    IF ~it.ok
    THEN /\ ReadFailed(it.err)
         /\ UNCHANGED changes
    ELSE /\ changes' = Some(it.v)
         /\ reader_pc' = "iterating"
         /\ UNCHANGED <<build, read_error>>

\* next_vc_block returns the block; the cursor is moved to the block end
BlockParsed(block) ==
    /\ current_vc_block' = Some(block)
    /\ position' = 9 + Len(source[1].payload)
    /\ BlockChangesBuilt(VcBlockChanges_new(block, ReadGeometry, 0))

\* the rest of FstReader::next_value_changes: collect() returns once every job
\* is done or one has failed (then with the error of any failed job), the
\* results are stored, and the iterator is built
NextValueChangesReturn ==
    /\ reader_pc = "building"
    /\ failed_jobs(build[1].results) # {}
       \/ \A j \in 1..Len(build[1].results) : build[1].results[j] # None
    /\ IF failed_jobs(build[1].results) # {}
       THEN /\ \E j \in failed_jobs(build[1].results) :
                   ReadFailed(build[1].results[j][1].err)
            /\ UNCHANGED <<position, current_vc_block, changes>>
       ELSE BlockParsed(VcBlockMeta(build[1].sections,
                StoreResults(build[1].chains,
                    [j \in 1..Len(build[1].results) |-> build[1].results[j][1].v], 1)))
    /\ UNCHANGED <<source, yielded>>
    /\ UNCHANGED <<writer_vars, finished, last, emitted, flushed>>

\* Iterator::next returned step.item
Stepped(step) ==
    /\ changes' = Some(step.it)
    /\ IF ~step.item.ok
       THEN /\ reader_pc' = "failed"
            /\ read_error' = step.item.err
            /\ UNCHANGED yielded
       ELSE IF step.item.v = None
       THEN /\ reader_pc' = "end"
            /\ UNCHANGED <<yielded, read_error>>
       ELSE /\ yielded' = Append(yielded, step.item.v[1])
            /\ UNCHANGED <<reader_pc, read_error>>

\* Iterator::next on the VcBlockChanges the caller holds
IterNext ==
    /\ reader_pc = "iterating"
    /\ Stepped(next_canonical(changes[1]))
    /\ UNCHANGED <<source, position, build, current_vc_block>>
    /\ UNCHANGED <<writer_vars, finished, last, emitted, flushed>>

NextReader ==
    \/ NextValueChangesCall
    \/ \E j \in 1..MaxSlots : RunJob(j)
    \/ NextValueChangesReturn
    \/ IterNext

\* a reader on every block of MaxSlots index entries
SpecReader == InitReader /\ [][NextReader]_vars

\* ------------------------------------------------------ reading the output
\* FstReader::next_vc_block on block i of the output
BlockMeta(i) == parse_vc_block(output[i].payload, output[i].tag, 0, Len(output[i].payload))

\* FstReader::next_value_changes on block i of the output, iterated to its end
BlockChanges(i) ==
    read_changes(output[i].payload, output[i].tag, geom_entries(geometry),
                 header[1].time_zero)

\* ------------------------------------------------------- claim vocabulary
\* the canonical handle a registered handle stands for
CanonicalOf(handle) == resolve_canonical_handle(alias_of, handle, next_handle).v

\* every accepted emit_change call so far, in call order
Accepted == Concat(flushed) \o emitted

NonDecreasing(calls) ==
    \A i \in 1..(Len(calls) - 1) : calls[i].timestamp <= calls[i + 1].timestamp

\* the text a value stands for on a handle of the given geometry, as the
\* format defines it: lower-case bit characters, one character per bit
\* ('0' is 48, '1' is 49), the eight bytes of a real least significant first
TextOf(value, geom) ==
    IF geom.k = "Fixed" THEN
        IF value.k = "PackedBits"
        THEN [b \in 1..geom.n |->
                 IF (value.d[((b - 1) \div 8) + 1] \div Pow2(7 - ((b - 1) % 8))) % 2 = 1
                 THEN 49 ELSE 48]
        ELSE IF geom.n = 1
        THEN [b \in 1..Len(value.d) |-> to_ascii_lowercase(value.d[b])]
        ELSE value.d
    ELSE IF geom.k = "Real" THEN
        IF value.k = "Real" THEN Reverse(value.d) ELSE value.d
    ELSE value.d

\* the text a decoded event carries
EventText(event, geom) ==
    IF event.value.k = "PackedBits" \/ event.value.k = "Real"
    THEN TextOf(event.value, geom)
    ELSE event.value.d

\* the canonical events of a decoded block, as <<timestamp, handle, text>>
CanonicalEvents(i) ==
    LET events == SelectSeq(BlockChanges(i).events, LAMBDA e : e.alias_of = None)
    IN  [j \in 1..Len(events) |->
            <<events[j].timestamp, events[j].handle,
              EventText(events[j], geometry[events[j].handle])>>]

\* the accepted calls of a batch, as <<timestamp, canonical handle, text>>
CallEvents(calls) ==
    [j \in 1..Len(calls) |->
        <<calls[j].timestamp, CanonicalOf(calls[j].handle),
          TextOf(calls[j].value, geometry[calls[j].handle])>>]

OfHandle(triples, handle) == SelectSeq(triples, LAMBDA t : t[2] = handle)

CountOf(seq, x) == Cardinality({j \in 1..Len(seq) : seq[j] = x})

SameBag(a, b) ==
    /\ Len(a) = Len(b)
    /\ \A x \in Range(a) \cup Range(b) : CountOf(a, x) = CountOf(b, x)

\* ----------------------------------------------------------------- C1
\* C1: when the accepted emit_change timestamps are non-decreasing and
\* time_zero is 0, every written block reads back without error, it yields
\* one canonical event per accepted call of its batch, and for each canonical
\* handle the events carry the timestamps and values of that handle's calls
\* in call order, changes at one timestamp included.
RoundTrip_C1 ==
    (NonDecreasing(Accepted) /\ (header # None => header[1].time_zero = 0)) =>
        /\ Len(output) = Len(flushed)
        /\ \A i \in 1..Len(output) :
              /\ BlockChanges(i).err = ""
              /\ Len(CanonicalEvents(i)) = Len(flushed[i])
              /\ \A h \in 1..(next_handle - 1) :
                    OfHandle(CanonicalEvents(i), h) = OfHandle(CallEvents(flushed[i]), h)

\* a block was written from two calls on one canonical handle at one
\* timestamp with different values
RoundTrip_C1_Witness ==
    /\ NonDecreasing(Accepted)
    /\ \E i \in 1..Len(output) :
          /\ Len(flushed[i]) = 2
          /\ CanonicalOf(flushed[i][1].handle) = CanonicalOf(flushed[i][2].handle)
          /\ flushed[i][1].timestamp = flushed[i][2].timestamp
          /\ flushed[i][1].value # flushed[i][2].value

\* ----------------------------------------------------------------- C2
\* the position of the first canonical event of a handle at a timestamp
FirstAt(triples, timestamp, handle) ==
    LET hits == {j \in 1..Len(triples) :
                    triples[j][1] = timestamp /\ triples[j][2] = handle}
    IN  CHOOSE j \in hits : \A m \in hits : j <= m

\* the canonical handles with an event at a timestamp
HandlesAt(triples, timestamp) ==
    {triples[j][2] : j \in {m \in 1..Len(triples) : triples[m][1] = timestamp}}

\* C2: when two canonical handles change at the same time index of a block,
\* the iterator yields the smaller handle's canonical event first.
TieBreaking_C2 ==
    \A i \in 1..Len(output) :
        LET triples == CanonicalEvents(i) IN
        \A j \in 1..Len(triples) :
            \A a, b \in HandlesAt(triples, triples[j][1]) :
                a < b => FirstAt(triples, triples[j][1], a) < FirstAt(triples, triples[j][1], b)

\* ----------------------------------------------------------------- C3
\* the alias events that follow position p of a decoded block
FollowersOf(events, p, n) ==
    [k \in 1..n |-> IF p + k <= Len(events) THEN events[p + k] ELSE ValueChange(0, 0, None, 0)]

\* C3: in every written block each canonical event is followed at once by
\* one event per registered alias of its handle, in registration order, with
\* the same timestamp and value and alias_of = Some(canonical); the event
\* after them is canonical again; a block starts with a canonical event.
AliasSynthesis_C3 ==
    \A i \in 1..Len(output) :
        LET events == BlockChanges(i).events IN
        /\ BlockChanges(i).err = ""
        /\ events # <<>> => events[1].alias_of = None
        /\ \A p \in 1..Len(events) :
              events[p].alias_of = None =>
                  LET children == alias_children[events[p].handle]
                      n == Len(children)
                  IN  /\ FollowersOf(events, p, n) =
                             [k \in 1..n |->
                                 ValueChange(events[p].timestamp, children[k],
                                             Some(events[p].handle), events[p].value)]
                      /\ p + n + 1 <= Len(events) => events[p + n + 1].alias_of = None

\* a block was written from a call made through an alias handle whose
\* canonical handle has two aliases, and it read back three events
AliasSynthesis_C3_Witness ==
    \E i \in 1..Len(output) :
        /\ \E j \in 1..Len(flushed[i]) :
              /\ alias_of[flushed[i][j].handle] # None
              /\ Len(alias_children[CanonicalOf(flushed[i][j].handle)]) = 2
        /\ Len(BlockChanges(i).events) >= 3

\* ------------------------------------------------------------ C4, C5
\* the latest call among calls made on the canonical handle of h, if any
LatestFor(calls, h) ==
    LET hits == {j \in 1..Len(calls) : CanonicalOf(calls[j].handle) = CanonicalOf(h)}
    IN  IF hits = {} THEN None
        ELSE Some(calls[CHOOSE j \in hits : \A m \in hits : m <= j])

\* the frame text of a handle that never changed: 'x' per bit, NaN, nothing
DefaultText(geom) ==
    IF geom.k = "Fixed" THEN Repeat(120, geom.n)
    ELSE IF geom.k = "Real" THEN Reverse(NAN)
    ELSE <<>>

\* the frame text of handle h after the given calls
FrameTextOf(calls, h) ==
    IF geometry[h].k = "Variable" THEN <<>>
    ELSE IF LatestFor(calls, h) = None THEN DefaultText(geometry[h])
    ELSE TextOf(LatestFor(calls, h)[1].value, geometry[h])

\* the frame of handles 1..=max_handle after the given calls
ExpectedFrame(calls) == Concat([h \in 1..(next_handle - 1) |-> FrameTextOf(calls, h)])

\* the calls of the first n batches
CallsUpTo(n) == Concat(SubSeq(flushed, 1, n))

\* C4: the frame of every written block holds, for every handle, the value
\* that was current before any change of that block was applied.
FrameAdequacy_C4 ==
    \A i \in 1..Len(output) :
        /\ BlockMeta(i).ok
        /\ BlockMeta(i).v.frame.data = ExpectedFrame(CallsUpTo(i - 1))

\* C5: the frame of every written block lists handles 1..=max_handle in
\* order and holds for each the most recent value accepted for it up to the
\* flush, earlier blocks included, or the default when it never changed;
\* Variable handles contribute no bytes.
FrameContents_C5 ==
    \A i \in 1..Len(output) :
        /\ BlockMeta(i).ok
        /\ BlockMeta(i).v.frame.data = ExpectedFrame(CallsUpTo(i))
        /\ BlockMeta(i).v.frame.data # <<>> =>
               BlockMeta(i).v.frame.max_handle = next_handle - 1

\* a second block was written whose frame carries a multi-byte value that
\* was accepted for another handle before the first flush
FrameContents_C5_Witness ==
    /\ Len(output) = 2
    /\ CanonicalOf(flushed[1][1].handle) # CanonicalOf(flushed[2][1].handle)
    /\ geometry[flushed[1][1].handle] \in {Fixed(2), Real}
    /\ geometry[flushed[2][1].handle] # Variable
    /\ BlockMeta(2).ok
    /\ BlockMeta(2).v.frame.data # BlockMeta(1).v.frame.data

\* ----------------------------------------------------------------- C6
\* C6: a successful flush or finish that finds pending changes appends
\* exactly one block and leaves the pending buffer empty, and every block of
\* the output holds exactly the calls accepted between the flush before it
\* and its own flush.
FlushBarrier_C6 ==
    /\ [][(pending_changes # <<>> /\ last' = "ok" /\ (Flush \/ Finish)) =>
             /\ Len(output') = Len(output) + 1
             /\ SubSeq(output', 1, Len(output)) = output
             /\ flushed' = Append(flushed, emitted)
             /\ pending_changes' = <<>>
             /\ emitted' = <<>>]_vars
    /\ [](/\ Len(output) = Len(flushed)
          /\ \A i \in 1..Len(output) :
                /\ BlockChanges(i).err = ""
                /\ SameBag(CanonicalEvents(i), CallEvents(flushed[i])))

\* two flushes each wrote a block and nothing is pending
FlushBarrier_C6_Witness ==
    /\ Len(output) = 2
    /\ Len(flushed) = 2
    /\ pending_changes = <<>>
    /\ last = "ok"

\* ----------------------------------------------------------------- C7
\* C7: a flush or finish that finds nothing pending succeeds, writes no
\* block and leaves every field of the writer as it was; as long as no
\* emit_change was accepted the output holds no VC block.
EmptyFlush_C7 ==
    /\ [][(pending_changes = <<>> /\ (Flush \/ Finish)) =>
             (last' = "ok" /\ UNCHANGED writer_vars)]_vars
    /\ [](Accepted = <<>> => (output = <<>> /\ vc_blocks_written = 0))

\* finish ran on a writer with a header and no accepted change
EmptyFlush_C7_Witness ==
    /\ finished
    /\ header_written
    /\ Accepted = <<>>
    /\ last = "ok"
    /\ output = <<>>

\* ----------------------------------------------------------------- C8
\* C8: consecutive blocks of the output do not go back in time.
TimeMonotonic_C8 ==
    \A i \in 1..(Len(output) - 1) :
        BlockMeta(i + 1).v.header.begin_time >= BlockMeta(i).v.header.end_time

\* ----------------------------------------------------------------- C9
\* C9: no emit_change call whose timestamp is lower than that of an earlier
\* accepted call is ever accepted.
MonotonicValidation_C9 == NonDecreasing(Accepted)

\* ---------------------------------------------------------------- C10
\* the calls of the bit-only specification that emit_change must refuse:
\* no header yet, a handle that is 0 or was never allocated, a two-character
\* vector on a one-bit handle, the unsupported bit character 'q'
BadCall(handle, value) ==
    \/ ~header_written
    \/ handle = 0
    \/ handle >= next_handle
    \/ value = Vector(<<49, 48>>)
    \/ value = Bit(113)

\* C10: an emit_change call that must be refused returns an error and leaves
\* the pending buffer and the frame state as they were.
RejectedEmit_C10 ==
    [][\A timestamp \in 0..MaxTime, handle \in 0..(MaxHandles + 1), value \in Values :
           (EmitChange(timestamp, handle, value) /\ BadCall(handle, value)) =>
               /\ last' = "emit_rejected"
               /\ UNCHANGED <<pending_changes, frame_state>>]_vars

\* a call was refused while a change was pending and the frame held a value
RejectedEmit_C10_Witness ==
    /\ last = "emit_rejected"
    /\ header_written
    /\ pending_changes # <<>>
    /\ \E h \in 1..Len(frame_state) : frame_state[h].k = "Bit"

\* ------------------------------------------------------------------ C11
\* a metadata call of the writer: begin_scope, end_scope, add_variable, add_alias
\* or write_header, with any of the arguments of Spec
MetadataCall ==
    \/ BeginScope
    \/ EndScope
    \/ \E geom \in Geoms : AddVariable(geom, MaxHandles)
    \/ \E target \in 0..(MaxHandles + 1) : AddAlias(target, MaxHandles)
    \/ \E time_zero \in TimeZeros, vc_section_count \in SectionCounts :
           WriteHeader(time_zero, vc_section_count)

\* C11: once write_header has succeeded, every begin_scope, end_scope,
\* add_variable, add_alias and write_header call fails, and the handle counter,
\* the geometry table, the alias tables, the scopes, the scope stack, the
\* variables and the hierarchy items (and the header and hierarchy block
\* written) never change again.
MetadataFrozen_C11 ==
    /\ [][(header_written /\ MetadataCall) => last' = "rejected"]_vars
    /\ [][header_written =>
            UNCHANGED <<metadata_vars, header, hierarchy_block, header_written,
                        metadata_written>>]_vars

\* a metadata call was rejected after the header of a writer with handles
MetadataFrozen_C11_Witness ==
    /\ header_written
    /\ last = "rejected"
    /\ next_handle > 2
    /\ pending_changes # <<>>

\* ------------------------------------------------------------------ C12
\* C12: counting add_variable and add_alias together, the k-th successful call
\* returns handle k; a call that fails leaves the handle counter as it was; a
\* successful one takes exactly the next handle; and the header written
\* afterwards has max_handle equal to the number of successful calls, with one
\* geometry entry per handle.
DenseHandles_C12 ==
    /\ [](/\ \A k \in 1..Len(variables) : variables[k].handle = k
          /\ next_handle = Len(variables) + 1
          /\ Len(geometry) = Len(variables)
          /\ header # None =>
                /\ header[1].max_handle = Len(variables)
                /\ Len(geom_entries(geometry)) = header[1].max_handle)
    /\ [][last' # "ok" => next_handle' = next_handle]_vars
    /\ [][next_handle' # next_handle =>
            /\ last' = "ok"
            /\ Len(variables') = Len(variables) + 1
            /\ Last(variables').handle = next_handle
            /\ next_handle' = next_handle + 1]_vars

\* a header written for a variable, an alias of it and another variable
DenseHandles_C12_Witness ==
    /\ header # None
    /\ Len(variables) = 3
    /\ variables[2].is_alias
    /\ ~variables[3].is_alias
    /\ header[1].max_handle = 3

\* ------------------------------------------------------------------ C13
\* FstReader::read_hierarchy_block on the hierarchy block the writer wrote
HierarchyRead == decode_block(hierarchy_block[1])

\* C13: the hierarchy block read back gives every variable, alias or not, the
\* handle the writer returned for it.
HierarchyHandles_C13 ==
    hierarchy_block # None =>
        /\ HierarchyRead.ok
        /\ Len(HierarchyRead.v.variables) = Len(variables)
        /\ \A k \in 1..Len(variables) :
               HierarchyRead.v.variables[k].handle = variables[k].handle

\* ------------------------------------------------------------------ C14
\* the index entries of the block the reader is on, as decode_chain_index reads
\* them from the index bytes of the payload
SourceEntries(index_length) ==
    LET payload == source[1].payload
        time_compressed_len == FromBE(SubSeq(payload, Len(payload) - 15, Len(payload) - 8), 0)
        index_end == Len(payload) - 24 - time_compressed_len - 8
    IN  DecodeIndexFrom(SubSeq(payload, index_end - index_length + 1, index_end),
                        source[1].tag, <<>>, 0, None).v

\* every slot with alias_of = Some(t) shares the offset and the length of slot
\* t, and entry t is a Data entry whose slot has no alias_of
AliasSlotsCanonical(slots, entries) ==
    \A h \in 1..Len(slots) :
        (slots[h] # None /\ slots[h][1].alias_of # None) =>
            LET t == slots[h][1].alias_of[1] IN
            /\ t \in 1..Len(entries)
            /\ entries[t].k = "Data"
            /\ slots[t] # None
            /\ slots[t][1].alias_of = None
            /\ slots[h][1].offset = slots[t][1].offset
            /\ slots[h][1].length = slots[t][1].length

\* every chain with alias_of = Some(t) holds the bytes of the chain of t
AliasChainsEqual(chains) ==
    \A h \in 1..Len(chains) :
        (chains[h] # None /\ chains[h][1].alias_of # None) =>
            LET t == chains[h][1].alias_of[1] IN
            /\ t \in 1..Len(chains)
            /\ chains[t] # None
            /\ chains[t][1].alias_of = None
            /\ chains[h][1].payload = chains[t][1].payload
            /\ chains[h][1].stored_len = chains[t][1].stored_len

\* C14: in every block the reader parses, a slot that decode_chain_index returns
\* with alias_of = Some(t) points at a Data slot t without alias_of, has the offset
\* and the length of t, and build_chains materialises the same bytes for both,
\* whether the alias entry names t directly or through other alias entries
AliasTransitivity_C14 ==
    /\ build # None =>
           AliasSlotsCanonical(build[1].sections.index,
                               SourceEntries(build[1].sections.header.index_length))
    /\ current_vc_block # None =>
           /\ AliasSlotsCanonical(current_vc_block[1].index,
                                  SourceEntries(current_vc_block[1].header.index_length))
           /\ \A h \in 1..Len(current_vc_block[1].index) :
                  current_vc_block[1].index[h] # None =>
                      /\ current_vc_block[1].chains[h] # None
                      /\ current_vc_block[1].chains[h][1].alias_of
                             = current_vc_block[1].index[h][1].alias_of
           /\ AliasChainsEqual(current_vc_block[1].chains)

\* a parsed block in which handle 3 is an alias of handle 2, itself an alias of
\* handle 1, whose chain was stored compressed: handle 3 has alias_of = Some(1)
AliasTransitivity_C14_Witness ==
    /\ current_vc_block # None
    /\ LET entries == SourceEntries(current_vc_block[1].header.index_length) IN
       /\ entries[3].k = "Alias" /\ entries[3].target = 1
       /\ entries[2].k = "Alias" /\ entries[2].target = 0
       /\ entries[1].k = "Data"
    /\ current_vc_block[1].index[3] # None
    /\ current_vc_block[1].index[3][1].alias_of = Some(1)
    /\ current_vc_block[1].chains[3] # None
    /\ current_vc_block[1].chains[3][1].payload = <<2, 2, 2>>
    /\ current_vc_block[1].chains[3][1].stored_len = 3

\* ------------------------------------------------------------------ C15
RECURSIVE ReachesData(_, _, _)
\* following alias targets from entry idx arrives at a Data entry within steps
ReachesData(entries, idx, steps) ==
    IF steps = 0 THEN FALSE
    ELSE IF entries[idx].k = "Data" THEN TRUE
    ELSE IF entries[idx].k = "Alias" /\ entries[idx].target + 1 \in 1..Len(entries)
    THEN ReachesData(entries, entries[idx].target + 1, steps - 1)
    ELSE FALSE

\* the alias entries whose targets never arrive at a Data entry
Unresolved(entries) ==
    {h \in 1..Len(entries) : entries[h].k = "Alias" /\ ~ReachesData(entries, h, Len(entries))}

\* the errors a block fails with because of the bytes of a chain
ChainErrors ==
    {"corrupt deflate stream", "chain length mismatch", "chain zlib length mismatch",
     "unexpected end of input while decoding varint"}

\* C15: an alias entry whose targets never reach a Data entry (target without a
\* chain, target past the end, itself, or a cycle) is decoded as an empty slot
\* and an empty chain, the block does not fail because of it, and the iterator
\* yields no event for its handle; the block of a writer whose aliased canonical
\* handle has no change is read to its end without error
UnresolvedAliases_C15 ==
    /\ build # None =>
           \A h \in Unresolved(SourceEntries(build[1].sections.header.index_length)) :
               build[1].sections.index[h] = None
    /\ current_vc_block # None =>
           \A h \in Unresolved(SourceEntries(current_vc_block[1].header.index_length)) :
               /\ current_vc_block[1].index[h] = None
               /\ current_vc_block[1].chains[h] = None
               /\ \A i \in 1..Len(yielded) : yielded[i].handle # h
    /\ reader_pc = "failed" => read_error \in ChainErrors
    /\ source = Some(writer_block(options)) =>
           /\ reader_pc # "failed"
           /\ current_vc_block # None =>
                  /\ current_vc_block[1].index[1] = None
                  /\ current_vc_block[1].index[2] = None
           /\ reader_pc = "end" => /\ Len(yielded) = 1
                                   /\ yielded[1].handle = 3

\* a block whose handles 1 and 2 are aliases of each other and whose handle 3
\* has a chain, read to its end: one event, of handle 3
UnresolvedAliases_C15_Witness ==
    /\ reader_pc = "end"
    /\ current_vc_block # None
    /\ LET entries == SourceEntries(current_vc_block[1].header.index_length) IN
       /\ entries[1].k = "Alias" /\ entries[1].target = 1
       /\ entries[2].k = "Alias" /\ entries[2].target = 0
       /\ entries[3].k = "Data"
    /\ current_vc_block[1].index[1] = None
    /\ current_vc_block[1].index[2] = None
    /\ Len(yielded) = 1
    /\ yielded[1].handle = 3

\* ------------------------------------------------------------------ C16
\* C16: when reading a block fails, in next_value_changes or in a later call of
\* the iterator, the caller has received no event of the block
NoPartialEvents_C16 == reader_pc = "failed" => yielded = <<>>

\* ------------------------------------------------------------------ C17
RECURSIVE MsbByte(_, _, _)
\* the byte whose bits, most significant first, are the characters of text
\* from position first on ('1' is a set bit; past the end the bits are zero)
MsbByte(text, first, j) ==
    IF j > 7 THEN 0
    ELSE (IF first + j <= Len(text) /\ text[first + j] = 49 THEN Pow2(7 - j) ELSE 0)
         + MsbByte(text, first, j + 1)

\* the value the claim expects to read back for a value written to a handle
\* of the given geometry
ClaimedValue(value, geom) ==
    IF geom.k = "Fixed" /\ geom.n = 1 THEN Bit(TextOf(value, geom)[1])
    ELSE IF geom.k = "Fixed" THEN
        LET text == TextOf(value, geom) IN
        IF \A i \in 1..Len(text) : text[i] \in {48, 49}
        THEN PackedBits(geom.n, [b \in 1..((geom.n + 7) \div 8) |->
                                    MsbByte(text, 8 * (b - 1) + 1, 0)])
        ELSE Vector(text)
    ELSE IF geom.k = "Real"
    THEN RealValue(IF value.k = "Real" THEN value.d ELSE Reverse(value.d))
    ELSE Bytes(value.d)

\* the same, except that bytes which are not UTF-8 come back as Bytes
ReadBackValue(value, geom) ==
    IF /\ geom.k = "Fixed"
       /\ geom.n > 1
       /\ value.k # "PackedBits"
       /\ \E i \in 1..Len(value.d) : value.d[i] >= 128
    THEN Bytes(value.d)
    ELSE ClaimedValue(value, geom)

\* the canonical events of a decoded block, as <<timestamp, handle, value>>
ValueEvents(i) ==
    LET events == SelectSeq(BlockChanges(i).events, LAMBDA e : e.alias_of = None)
    IN  [j \in 1..Len(events) |-> <<events[j].timestamp, events[j].handle, events[j].value>>]

\* the accepted calls of a batch with the values the claim expects
ClaimedCalls(calls) ==
    [j \in 1..Len(calls) |->
        <<calls[j].timestamp, CanonicalOf(calls[j].handle),
          ClaimedValue(calls[j].value, geometry[calls[j].handle])>>]

\* the accepted calls of a batch with the values that are read back
ReadBackCalls(calls) ==
    [j \in 1..Len(calls) |->
        <<calls[j].timestamp, CanonicalOf(calls[j].handle),
          ReadBackValue(calls[j].value, geometry[calls[j].handle])>>]

\* C17 as stated: every accepted value is read back as Bit(c) with c in lower
\* case on Fixed(1) handles, as PackedBits of ceil(width/8) bytes, most
\* significant bit first and unused low bits zero, when a Fixed(w>1) value is
\* made of '0' and '1' only, as Vector(text) with the text unchanged otherwise,
\* as the same Real on Real handles and as Bytes with the same bytes on
\* Variable handles
ValueCanonical_C17 ==
    /\ Len(output) = Len(flushed)
    /\ \A i \in 1..Len(output) :
          /\ BlockChanges(i).err = ""
          /\ \A h \in 1..(next_handle - 1) :
                SameBag(OfHandle(ValueEvents(i), h), OfHandle(ClaimedCalls(flushed[i]), h))

\* C17 amended: the same, except that a Fixed(w>1) value given as bytes that
\* are not UTF-8 is read back as Bytes with the same bytes, not as Vector
ValueCanonical_C17_Amended ==
    /\ Len(output) = Len(flushed)
    /\ \A i \in 1..Len(output) :
          /\ BlockChanges(i).err = ""
          /\ \A h \in 1..(next_handle - 1) :
                SameBag(OfHandle(ValueEvents(i), h), OfHandle(ReadBackCalls(flushed[i]), h))

\* a block written from "100000001" and from nine bytes that are not UTF-8 on a
\* Fixed(9) handle, read back as two packed bytes and as Bytes
ValueCanonical_C17_Witness ==
    /\ Len(output) = 1
    /\ Len(flushed) = 1
    /\ geometry[1] = Fixed(9)
    /\ {flushed[1][j].value : j \in 1..Len(flushed[1])} = {Vector(V10), Bytes(VFF)}
    /\ {ValueEvents(1)[j][3] : j \in 1..Len(ValueEvents(1))}
           = {PackedBits(9, <<128, 128>>), Bytes(VFF)}

\* ------------------------------------------------------------------ C18
\* the changes buffered by the accepted calls of a batch
PendingOf(calls) ==
    [j \in 1..Len(calls) |->
        PendingChange(calls[j].timestamp, CanonicalOf(calls[j].handle),
                      convert_value(calls[j].value, geometry[calls[j].handle]).v)]

\* the raw chain of handle h in the block written from batch i
RawChain(i, h) ==
    LET sorted == sort_changes(PendingOf(flushed[i])) IN
    chain_bytes_of(per_handle_of(sorted, time_points_of(sorted), h)).v

\* what block i stores in the slot of handle h: the stored_len varint and the
\* bytes that follow it
StoredChain(i, h) ==
    LET slot == BlockMeta(i).v.index[h][1]
        slice == SubSeq(output[i].payload, slot.offset + 1, slot.offset + slot.length)
        r == decode_varint_with_len(slice)
    IN  [stored_len |-> r.value, bytes |-> SubSeq(slice, r.consumed + 1, Len(slice))]

\* the handles with a change in batch i
ChangedHandles(i) == {CanonicalOf(flushed[i][j].handle) : j \in 1..Len(flushed[i])}

\* C18: every chain of a written block is stored either with stored_len = 0
\* followed by the raw chain, or with stored_len = the raw length (> 0) followed
\* by strictly fewer bytes; with chain compression Raw stored_len is 0; and the
\* reader's chain holds exactly the raw bytes, borrowed from the chain buffer
\* when stored_len = 0 and owned otherwise
CompressionFallback_C18 ==
    /\ Len(output) = Len(flushed)
    /\ \A i \in 1..Len(output) :
          /\ BlockMeta(i).ok
          /\ \A h \in ChangedHandles(i) :
                /\ BlockMeta(i).v.index[h] # None
                /\ \/ /\ StoredChain(i, h).stored_len = 0
                      /\ StoredChain(i, h).bytes = RawChain(i, h)
                   \/ /\ StoredChain(i, h).stored_len = Len(RawChain(i, h))
                      /\ StoredChain(i, h).stored_len > 0
                      /\ Len(StoredChain(i, h).bytes) < StoredChain(i, h).stored_len
                /\ options.chain_compression = "Raw" => StoredChain(i, h).stored_len = 0
                /\ BlockMeta(i).v.chains[h] # None
                /\ BlockMeta(i).v.chains[h][1].payload = RawChain(i, h)
                /\ BlockMeta(i).v.chains[h][1].owned = (StoredChain(i, h).stored_len # 0)

\* a block whose only chain, two empty payloads at one timestamp on a Variable
\* handle, is stored compressed: four raw bytes kept as two, owned by the reader
CompressionFallback_C18_Witness ==
    /\ Len(output) = 1
    /\ Len(flushed) = 1
    /\ ChangedHandles(1) = {1}
    /\ RawChain(1, 1) = <<0, 0, 0, 0>>
    /\ StoredChain(1, 1).stored_len = 4
    /\ Len(StoredChain(1, 1).bytes) = 2
    /\ BlockMeta(1).v.chains[1][1].owned
    /\ BlockMeta(1).v.chains[1][1].payload = <<0, 0, 0, 0>>

\* ------------------------------------------------------------------ C19
\* parse_vc_block on the block of the reader, its jobs run one after the other
SequentialBlock ==
    parse_vc_block(source[1].payload, source[1].tag, 0, Len(source[1].payload))

\* C19: whatever the order in which the decompression jobs ran and completed,
\* the block the reader stores has the chains (payload bytes, stored_len,
\* alias_of of every handle) that build_chains returns when it runs the jobs
\* one after the other, the reader fails in build_chains only when the
\* sequential build fails, and a job leaves the cursor of the backend where
\* it was
ParallelDeterminism_C19 ==
    /\ [](current_vc_block # None =>
              /\ SequentialBlock.ok
              /\ current_vc_block[1].chains = SequentialBlock.v.chains)
    /\ []((reader_pc = "failed" /\ current_vc_block = None) => ~SequentialBlock.ok)
    /\ [][(\E j \in 1..MaxSlots : RunJob(j)) => position' = position]_vars

\* a stored block with three compressed chains whose jobs completed in the
\* order 3, 1, 2
ParallelDeterminism_C19_Witness ==
    /\ current_vc_block # None
    /\ build # None
    /\ build[1].order = <<3, 1, 2>>
    /\ \A h \in 1..3 : /\ current_vc_block[1].chains[h] # None
                       /\ current_vc_block[1].chains[h][1].owned
                       /\ current_vc_block[1].chains[h][1].stored_len = 3
                       /\ current_vc_block[1].chains[h][1].payload = <<2, 2, 2>>

\* ------------------------------------------------------------------ C20
\* BlockType::VcDataDynAlias
BlockTypeVcDataDynAlias == 5

\* every written block carries, after its tag, the big-endian section length
\* payload length + 8
SectionLengthWritten ==
    \A i \in 1..Len(output) :
        /\ Len(block_bytes(output[i])) = 9 + Len(output[i].payload)
        /\ FromBE(SubSeq(block_bytes(output[i]), 2, 9), 0) = Len(output[i].payload) + 8

\* C20: every VC block the writer emits starts with the tag byte of
\* BlockType::VcDataDynAlias, 5, followed by the big-endian u64 section length,
\* which is the payload length + 8
BlockTag_C20 ==
    /\ SectionLengthWritten
    /\ \A i \in 1..Len(output) : block_bytes(output[i])[1] = BlockTypeVcDataDynAlias

\* ----------------------------------------------------------------- C23
\* the frame slot FrameState holds for a handle
FrameSlotOf(h) == IF h <= Len(frame_state) THEN frame_state[h] ELSE FrameNone

\* the bytes of handle h inside the frame of a block: the handles before it
\* take the widths of their geometries
FrameSliceOf(data, h) ==
    LET before == Len(Concat([g \in 1..(h - 1) |-> DefaultText(geometry[g])]))
    IN  SubSeq(data, before + 1, before + Len(DefaultText(geometry[h])))

\* the handles registered by add_alias
AliasHandles == {h \in 1..(next_handle - 1) : alias_of[h] # None}

\* C23: after any sequence of add_variable, add_alias and accepted
\* emit_change calls the frame slot of every alias handle equals the frame
\* slot of its canonical handle, and in every written block the frame bytes
\* of an alias are the frame bytes of its canonical.
AliasFrame_C23 ==
    \A h \in AliasHandles :
        /\ FrameSlotOf(h) = FrameSlotOf(CanonicalOf(h))
        /\ \A i \in 1..Len(output) :
              /\ BlockMeta(i).ok
              /\ FrameSliceOf(BlockMeta(i).v.frame.data, h) =
                     FrameSliceOf(BlockMeta(i).v.frame.data, CanonicalOf(h))

\* a block was written after a call on the canonical handle of an alias
\* changed the multi-byte frame slot both of them share
AliasFrame_C23_Witness ==
    \E h \in AliasHandles :
        /\ Len(output) >= 1
        /\ geometry[h] \in {Fixed(2), Real}
        /\ \E j \in 1..Len(flushed[1]) : flushed[1][j].handle = CanonicalOf(h)
        /\ FrameSliceOf(BlockMeta(1).v.frame.data, h) # DefaultText(geometry[h])

\* ----------------------------------------------------------------- C24
\* the index entries of block i of the output, as decode_chain_index reads
\* them from the index bytes of the payload (targets are 0-based)
WrittenEntries(i) ==
    LET payload == output[i].payload
        time_compressed_len == FromBE(SubSeq(payload, Len(payload) - 15, Len(payload) - 8), 0)
        index_end == Len(payload) - 24 - time_compressed_len - 8
        index_length == FromBE(SubSeq(payload, index_end + 1, index_end + 8), 0)
    IN  DecodeIndexFrom(SubSeq(payload, index_end - index_length + 1, index_end),
                        output[i].tag, <<>>, 0, None).v

\* alias_of of every alias handle is a lower handle that is not an alias
Flattened ==
    \A h \in AliasHandles :
        LET c == alias_of[h][1] IN
        /\ c >= 1
        /\ c < h
        /\ alias_of[c] = None

\* every buffered change is held under the canonical handle of the handle
\* its call was made on
BufferedUnderCanonical ==
    /\ Len(pending_changes) = Len(emitted)
    /\ \A j \in 1..Len(pending_changes) :
          /\ alias_of[pending_changes[j].handle] = None
          /\ pending_changes[j].handle = CanonicalOf(emitted[j].handle)

\* every Alias entry of a written index names the handle alias_of records,
\* and that handle is not an alias
AliasEntriesCanonical ==
    \A i \in 1..Len(output) :
        LET entries == WrittenEntries(i) IN
        \A h \in 1..Len(entries) :
            IF h \in AliasHandles
            THEN /\ entries[h].k = "Alias"
                 /\ entries[h].target + 1 = alias_of[h][1]
                 /\ alias_of[entries[h].target + 1] = None
            ELSE entries[h].k # "Alias"

\* an accepted add_alias records the canonical handle of its target
AliasRecordsCanonical ==
    \A target \in 1..MaxHandles :
        (AddAlias(target, MaxHandles) /\ last' = "ok") =>
            alias_of' = Append(alias_of, Some(CanonicalOf(target)))

\* C24: after any sequence of add_variable/add_alias calls alias_of of every
\* alias handle is a strictly lower handle that is not an alias (aliasing an
\* alias records that alias's canonical), so no self-reference or cycle is
\* reachable; every Alias index entry the writer emits targets a canonical
\* handle; a change emitted on an alias handle is buffered under its
\* canonical handle.
AliasesFlattened_C24 ==
    /\ [](Flattened /\ BufferedUnderCanonical /\ AliasEntriesCanonical)
    /\ [][AliasRecordsCanonical]_vars

\* handle 3 is an alias that followed alias 2, a change emitted on it is
\* buffered under handle 1, and a written block carries both Alias entries
AliasesFlattened_C24_Witness ==
    /\ next_handle = 4
    /\ alias_of = <<None, Some(1), Some(1)>>
    /\ alias_children[1] = <<2, 3>>
    /\ Len(output) >= 1
    /\ WrittenEntries(1)[2].k = "Alias"
    /\ WrittenEntries(1)[3].k = "Alias"
    /\ emitted # <<>>
    /\ emitted[1].handle = 3
    /\ pending_changes[1].handle = 1

\* ----------------------------------------------------------------- C21
\* finish has returned the sink of a writer whose header was written
FinishReturned == finished /\ last = "ok" /\ header # None

\* the sink finish returns
FinishedFile == into_inner(written_bytes, options)

\* every block of the output went through whole
NoTornBlock == \A i \in 1..Len(output) : output[i].payload # <<>>

\* a file written without the envelope opens, and reading it gives the
\* writer's header counts, its geometry, the hierarchy block as it decodes,
\* and the events of its blocks in file order
DirectFileReads ==
    (FinishReturned /\ NoTornBlock) =>
        LET r == read_file(written_bytes) IN
        /\ r.ok
        /\ r.v.header.scope_count = header[1].scope_count
        /\ r.v.header.var_count = header[1].var_count
        /\ r.v.header.max_handle = header[1].max_handle
        /\ r.v.header.time_zero = header[1].time_zero
        /\ r.v.header.version = DefaultVersion
        /\ r.v.geometry = Some(geom_entries(geometry))
        /\ r.v.hierarchy = Some(HierarchyRead.v)
        /\ r.v.changes.events =
               Concat([i \in 1..Len(output) |-> BlockChanges(i).events])

\* a file written with the envelope is one block of tag 0xFE whose payload
\* holds the two lengths and the compressed bytes of the inner stream
EnvelopeWritten ==
    (FinishReturned /\ options.wrap_zlib) =>
        /\ FinishedFile[1] = BlockTypeZWrapper
        /\ U64FromBE(SubSeq(FinishedFile, 2, 9)) = Len(FinishedFile) - 1
        /\ U64FromBE(SubSeq(FinishedFile, 10, 17)) = Len(written_bytes)
        /\ zlib_decompress(SubSeq(FinishedFile, 26, Len(FinishedFile))) = Ok(written_bytes)

\* C21: a file written with wrap_with_zlib(true) starts with tag 0xFE, and
\* opening that outer file with the reader succeeds and yields the same
\* header, metadata and change events as reading the same trace written
\* without the wrapper.
ZlibEnvelope_C21 ==
    (FinishReturned /\ options.wrap_zlib) =>
        /\ FinishedFile[1] = BlockTypeZWrapper
        /\ read_file(FinishedFile).ok
        /\ read_file(FinishedFile) = read_file(written_bytes)

\* ----------------------------------------------------------------- C29
\* C29: when flush or finish returns an error while writing the block, the
\* changes that were pending are still buffered afterwards, under their
\* canonical handles and in call order.
FailedFlush_C29 ==
    last = "sink_error" =>
        /\ Len(pending_changes) = Len(emitted)
        /\ \A j \in 1..Len(emitted) :
              /\ pending_changes[j].timestamp = emitted[j].timestamp
              /\ pending_changes[j].handle = CanonicalOf(emitted[j].handle)

\* ----------------------------------------------------------------- C30
\* C30: in every file returned by finish the header field vc_section_count
\* equals the writer's vc_blocks_written counter, whatever value the caller
\* put into the Header passed to write_header.
HeaderCount_C30 ==
    FinishReturned =>
        /\ Header_read(written_bytes).ok
        /\ Header_read(written_bytes).v.header.vc_section_count = vc_blocks_written

\* ----------------------------------------------------------------- C22
StrictlyIncreasing(s) == \A j \in 1..(Len(s) - 1) : s[j] < s[j + 1]

\* the timestamps of the canonical events of handle h in decoded block i
EventTimesOf(i, h) ==
    LET events == SelectSeq(BlockChanges(i).events,
                            LAMBDA e : e.alias_of = None /\ e.handle = h)
    IN  [k \in 1..Len(events) |-> events[k].timestamp]

\* the time indexes the writer gave to the changes of handle h in batch i
ScheduledAt(i, h) ==
    LET sorted == sort_changes(PendingOf(flushed[i]))
        per_handle == per_handle_of(sorted, time_points_of(sorted), h)
    IN  [k \in 1..Len(per_handle) |-> per_handle[k].idx]

\* C22: the time table decoded from a written block has one entry per
\* distinct emitted timestamp, in strictly increasing order, begin_time is its
\* first and end_time its last entry, and the events of the block have
\* timestamps that never decrease, each being time_table[i] + time_zero for
\* the time index i its chain scheduled it at.
TimeOrder_C22 ==
    \A i \in 1..Len(output) :
        LET meta == BlockMeta(i).v
            table == meta.time_table.timestamps
            events == BlockChanges(i).events
        IN  /\ BlockMeta(i).ok
            /\ BlockChanges(i).err = ""
            /\ StrictlyIncreasing(table)
            /\ Range(table) = {flushed[i][j].timestamp : j \in 1..Len(flushed[i])}
            /\ meta.time_section.item_count = Len(table)
            /\ meta.header.begin_time = table[1]
            /\ meta.header.end_time = Last(table)
            /\ \A j \in 1..(Len(events) - 1) : events[j].timestamp <= events[j + 1].timestamp
            /\ \A h \in 1..(next_handle - 1) :
                  EventTimesOf(i, h) =
                      [k \in 1..Len(ScheduledAt(i, h)) |->
                          table[ScheduledAt(i, h)[k] + 1] + header[1].time_zero]

\* a block was written from calls at timestamp 1 and then at timestamp 0
\* under a header with time_zero 2, and its last event reads timestamp 3
TimeOrder_C22_Witness ==
    /\ Len(output) >= 1
    /\ header[1].time_zero = 2
    /\ Len(flushed[1]) = 2
    /\ flushed[1][1].timestamp = 1
    /\ flushed[1][2].timestamp = 0
    /\ BlockMeta(1).v.time_table.timestamps = <<0, 1>>
    /\ Last(BlockChanges(1).events).timestamp = 3

\* ------------------------------------------------------------------ C25
\* the largest Data offset of an index that is encoded and decoded again
MaxOffset == 2

\* what an entry of the index may be: Empty, Data at any offset, an alias of any
\* handle (0, which encode_chain_index rejects, and one past the end included)
IndexEntryInputs ==
    {EntryEmpty} \cup {EntryData(o) : o \in 0..MaxOffset}
    \cup {EntryAlias(t) : t \in 0..(MaxSlots + 1)}

\* every list of up to MaxSlots entries, in any order of offsets
IndexInputs == UNION {[1..n -> IndexEntryInputs] : n \in 0..MaxSlots}

\* where the chain buffer starts in the block
ChainStarts == {0, 3}

\* the block tags whose index encode_chain_index writes
IndexTags == {BlockTypeVcData, BlockTypeVcDataDynAlias}

\* a list of entries, the chain buffer it indexes (total_chain_len bytes from
\* chain_start), the block tag and vc_max_handle; nothing is encoded yet
InitIndex ==
    /\ WriterInit([chain_compression |-> "Raw", time_compression |-> "Raw",
                   wrap_zlib |-> FALSE])
    /\ \E entries \in IndexInputs, total_chain_len \in 0..(MaxOffset + 1),
          chain_start \in ChainStarts, block_type \in IndexTags,
          max_handle_hint \in {0, MaxSlots} :
           source = Some([entries |-> entries, total_chain_len |-> total_chain_len,
                          chain_start |-> chain_start, block_type |-> block_type,
                          max_handle_hint |-> max_handle_hint])
    /\ position = 0
    /\ build = None
    /\ current_vc_block = None
    /\ changes = None
    /\ yielded = <<>>
    /\ reader_pc = "idle"
    /\ read_error = ""

\* encode_chain_index on the entries; build holds the Result
EncodeIndexCall ==
    /\ reader_pc = "idle"
    /\ LET index_bytes == encode_chain_index(source[1].entries) IN
           /\ build' = Some(index_bytes)
           /\ reader_pc' = IF index_bytes.ok THEN "encoded" ELSE "failed"
           /\ read_error' = index_bytes.err
    /\ UNCHANGED <<source, position, current_vc_block, changes, yielded>>
    /\ UNCHANGED <<writer_vars, finished, last, emitted, flushed>>

\* the block as far as decode_chain_index reads it: the index bytes behind the
\* chain buffer
IndexStream(input, index_bytes) ==
    Repeat(0, input.chain_start + input.total_chain_len) \o index_bytes

\* decode_chain_index, called as parse_vc_block calls it, on the encoded bytes;
\* current_vc_block holds the Result
DecodeIndexCall ==
    /\ reader_pc = "encoded"
    /\ \E overflow_checks \in BOOLEAN :
           LET input == source[1]
               chain_end == input.chain_start + input.total_chain_len
               index == decode_chain_index(IndexStream(input, build[1].v),
                            input.block_type, chain_end, Len(build[1].v),
                            input.max_handle_hint, input.chain_start, chain_end,
                            overflow_checks)
           IN  /\ current_vc_block' = Some(index)
               /\ reader_pc' = IF IsPanic(index) THEN "panicked"
                               ELSE IF index.ok THEN "decoded" ELSE "failed"
               /\ read_error' = index.err
    /\ UNCHANGED <<source, position, build, changes, yielded>>
    /\ UNCHANGED <<writer_vars, finished, last, emitted, flushed>>

NextIndex ==
    \/ EncodeIndexCall
    \/ DecodeIndexCall

\* a chain index encoded and decoded again
SpecIndex == InitIndex /\ [][NextIndex]_vars

\* the Data entries behind entry i
DataAfter(entries, i) == {j \in (i + 1)..Len(entries) : entries[j].k = "Data"}

\* the offset of the next Data entry behind entry i, or the end of the buffer
NextDataOffset(entries, i, total_chain_len) ==
    IF DataAfter(entries, i) = {} THEN total_chain_len
    ELSE entries[CHOOSE j \in DataAfter(entries, i) :
                     \A m \in DataAfter(entries, i) : j <= m].offset

\* the lists the round trip is about: Data offsets never decrease and lie in
\* the chain buffer, alias targets are handles
RoundTripInput(input) ==
    /\ \A i \in 1..Len(input.entries) :
           /\ input.entries[i].k = "Alias" => input.entries[i].target >= 1
           /\ input.entries[i].k = "Data" =>
                  /\ input.entries[i].offset <= input.total_chain_len
                  /\ \A j \in DataAfter(input.entries, i) :
                         input.entries[i].offset <= input.entries[j].offset

\* slot i of the decoded index is what entry i says
SlotOfEntry(input, slots, i) ==
    IF i > Len(input.entries) THEN slots[i] = None
    ELSE IF input.entries[i].k = "Empty" THEN slots[i] = None
    ELSE IF input.entries[i].k = "Data"
    THEN /\ slots[i] # None
         /\ slots[i][1].offset = input.chain_start + input.entries[i].offset
         /\ slots[i][1].length =
                NextDataOffset(input.entries, i, input.total_chain_len)
                - input.entries[i].offset
         /\ slots[i][1].alias_of = None
         /\ DataAfter(input.entries, i) = {} =>
                slots[i][1].offset + slots[i][1].length
                    = input.chain_start + input.total_chain_len
    ELSE TRUE

\* C25: for every list of Empty, Data and Alias (target >= 1) entries whose Data
\* offsets never decrease and lie in the chain buffer, encode_chain_index
\* succeeds and decode_chain_index (block tags 1 and 5) on its bytes returns,
\* in handle order, one slot per entry (followed by empty slots up to
\* vc_max_handle + 1): None for Empty, and for Data the same offset from the
\* start of the chain buffer, a length that is the next Data offset minus its
\* own, the last Data slot ending exactly at the end of the chain buffer
ChainIndexRoundTrip_C25 ==
    (reader_pc # "idle" /\ RoundTripInput(source[1])) =>
        /\ build[1].ok
        /\ reader_pc \in {"encoded", "decoded"}
        /\ reader_pc = "decoded" =>
               LET slots == current_vc_block[1].v IN
               /\ Len(slots) = IF Len(source[1].entries) < source[1].max_handle_hint + 1
                               THEN source[1].max_handle_hint + 1
                               ELSE Len(source[1].entries)
               /\ \A i \in 1..Len(slots) : SlotOfEntry(source[1], slots, i)

\* two chains of 2 and 1 bytes with an Empty handle between them, in a block of
\* tag 5 whose chain buffer starts at 3, have been encoded and decoded
ChainIndexRoundTrip_C25_Witness ==
    /\ reader_pc = "decoded"
    /\ source[1].entries = <<EntryData(0), EntryEmpty, EntryData(2)>>
    /\ source[1].total_chain_len = 3
    /\ source[1].chain_start = 3
    /\ source[1].block_type = BlockTypeVcDataDynAlias
    /\ current_vc_block[1].v[1][1].length = 2
    /\ current_vc_block[1].v[3][1].length = 1

\* ------------------------------------------- a caller that keeps iterating
\* the raw chains of a block with two time points (one-bit handles): '1' at
\* time index 0; a first delta of 2; a second delta of 2; deltas 0, 1, 1;
\* two markers in the first slot and one in the second; three markers in the
\* first slot (a chain that zlib shortens); a third marker that ends inside
\* its varint
DrainChains ==
    {<<2>>, <<8>>, <<2, 8>>, <<2, 4, 4>>, <<2, 2, 4>>, <<2, 2, 2>>, <<2, 4, 128>>}

\* what a handle of the block may be: without a chain, an alias of handle 1 or
\* 2, or one of the chains
DrainInputs(pack_type) ==
    {InEmpty, InAlias(1), InAlias(2)}
    \cup {InChain(pack_type, raw) : raw \in DrainChains}

\* a reader opened on one block of MaxSlots handles
InitDrain ==
    \E opts \in OptionSets :
        /\ WriterInit(opts)
        /\ \E inputs \in [1..MaxSlots -> DrainInputs(chain_pack_type(opts))] :
               source = Some(foreign_block(chain_pack_type(opts), inputs))
        /\ position = 0
        /\ build = None
        /\ current_vc_block = None
        /\ changes = None
        /\ yielded = <<>>
        /\ reader_pc = "idle"
        /\ read_error = ""

\* Iterator::next returned step.item to a caller that had been handed an error
Resumed(step) ==
    /\ changes' = Some(step.it)
    /\ IF ~step.item.ok
       THEN /\ read_error' = step.item.err
            /\ UNCHANGED <<yielded, reader_pc>>
       ELSE IF step.item.v = None
       THEN /\ reader_pc' = "end"
            /\ UNCHANGED <<yielded, read_error>>
       ELSE /\ yielded' = Append(yielded, step.item.v[1])
            /\ reader_pc' = "iterating"
            /\ UNCHANGED read_error

\* Iterator::next called again on a VcBlockChanges whose last item was Some(Err)
IterNextAfterError ==
    /\ reader_pc = "failed"
    /\ changes # None
    /\ Resumed(next_canonical(changes[1]))
    /\ UNCHANGED <<source, position, build, current_vc_block>>
    /\ UNCHANGED <<writer_vars, finished, last, emitted, flushed>>

NextDrain ==
    \/ NextValueChangesCall
    \/ \E j \in 1..MaxSlots : RunJob(j)
    \/ NextValueChangesReturn
    \/ IterNext
    \/ IterNextAfterError

\* a reader whose caller calls next() until it returns None
SpecDrain == InitDrain /\ [][NextDrain]_vars

\* ------------------------------------------------------------------ C26
RECURSIVE MarkerIndexesFrom(_, _, _, _)
\* the time index each marker of a one-bit chain asks for, marker after marker,
\* up to the end of the chain or to a marker that ends inside its varint
MarkerIndexesFrom(data, offset, current, acc) ==
    IF offset >= Len(data) THEN acc
    ELSE LET r == decode_varint_with_len(SubSeq(data, offset + 1, Len(data))) IN
         IF ~r.ok THEN acc
         ELSE MarkerIndexesFrom(data, offset + r.consumed,
                                current + compute_delta(KindBit, r.value),
                                Append(acc, current + compute_delta(KindBit, r.value)))

MarkerIndexes(data) == MarkerIndexesFrom(data, 0, 0, <<>>)

\* the handles of the block that have a chain of their own
CanonicalChains(block) ==
    {h \in 1..Len(block.chains) :
         block.chains[h] # None /\ block.chains[h][1].alias_of = None}

\* some chain asks, with its first marker, for a time index beyond the table
FirstBeyond(block) ==
    \E h \in CanonicalChains(block) :
        LET ix == MarkerIndexes(block.chains[h][1].payload) IN
        ix # <<>> /\ ix[1] >= Len(block.time_table.timestamps)

\* some chain asks, with a later marker, for a time index beyond the table
LaterBeyond(block) ==
    \E h \in CanonicalChains(block) :
        LET ix == MarkerIndexes(block.chains[h][1].payload) IN
        \E k \in 2..Len(ix) : ix[k] >= Len(block.time_table.timestamps)

\* the events of handle h among the yielded ones, aliases left out
CanonicalEventsOf(h) ==
    SelectSeq(yielded, LAMBDA ev : ev.handle = h /\ ev.alias_of = None)

\* every yielded event sits at a time index of the table: the k-th event of a
\* handle carries the timestamp at the index its k-th marker asks for, and an
\* alias event the timestamp of an event of its canonical handle
YieldedInsideTable(block) ==
    /\ \A h \in 1..Len(block.chains) :
           LET evs == CanonicalEventsOf(h) IN
           evs # <<>> =>
               /\ h \in CanonicalChains(block)
               /\ Len(evs) <= Len(MarkerIndexes(block.chains[h][1].payload))
               /\ \A k \in 1..Len(evs) :
                      LET ix == MarkerIndexes(block.chains[h][1].payload)[k] IN
                      /\ ix < Len(block.time_table.timestamps)
                      /\ evs[k].timestamp = block.time_table.timestamps[ix + 1]
    /\ \A e \in 1..Len(yielded) :
           yielded[e].alias_of # None =>
               \E c \in 1..(e - 1) :
                   /\ yielded[c].alias_of = None
                   /\ yielded[c].handle = yielded[e].alias_of[1]
                   /\ yielded[c].timestamp = yielded[e].timestamp

\* the iterator's own indexes stay inside the table
IteratorInsideTable(it) ==
    /\ it.time_index <= Len(it.timestamps)
    /\ Len(it.schedule) = Len(it.timestamps)
    /\ \A c \in 1..Len(it.cursors) :
           it.cursors[c].current_time_index <= it.time_index

\* C26: VcBlockChanges never yields an event at a time index >= the length of
\* the time table. A chain whose first marker asks for such an index makes
\* VcBlockChanges::new fail (no iterator, no event); a chain whose later markers
\* add up to such an index makes the iteration report an error: the iteration
\* never reaches its end without one
InsideTimeTable_C26 ==
    current_vc_block # None =>
        /\ YieldedInsideTable(current_vc_block[1])
        /\ changes # None => IteratorInsideTable(changes[1])
        /\ FirstBeyond(current_vc_block[1]) =>
               /\ changes = None
               /\ yielded = <<>>
               /\ reader_pc = "failed"
               /\ read_error = "initial chain delta exceeds time table"
        /\ (LaterBeyond(current_vc_block[1]) /\ ~FirstBeyond(current_vc_block[1])) =>
               /\ changes # None
               /\ reader_pc = "end" => read_error # ""

\* handle 1 asked for time indexes 0, 1 and 2 of a table of two: its first
\* event was yielded, then the iteration reported the error and went on to
\* its end
InsideTimeTable_C26_Witness ==
    /\ reader_pc = "end"
    /\ current_vc_block # None
    /\ 1 \in CanonicalChains(current_vc_block[1])
    /\ current_vc_block[1].chains[1][1].payload = <<2, 4, 4>>
    /\ read_error = "chain delta exceeds time table"
    /\ Len(CanonicalEventsOf(1)) = 1

\* ------------------------------------------------------------------ C28
RECURSIVE SumOver(_, _)
\* the sum of f over the indexes 1..n of f
SumOver(f, n) == IF n = 0 THEN 0 ELSE f[n] + SumOver(f, n - 1)

\* what is left to iterate: the unread chain bytes (each weighs more than the
\* alias events one canonical event can queue), the queued alias events, the
\* scheduled cursors and the time slots ahead
Remaining(it) ==
    (Len(it.alias_map) + 1)
        * SumOver([c \in 1..Len(it.cursors) |->
                      Len(it.cursors[c].data) - it.cursors[c].offset], Len(it.cursors))
    + Len(it.pending_aliases)
    + SumOver([t \in 1..Len(it.schedule) |-> Len(it.schedule[t])], Len(it.schedule))
    + Len(it.current_handles)
    + (Len(it.timestamps) - it.time_index)

\* a call of next() on the iterator the caller holds
NextCalled == reader_pc \in {"iterating", "failed"} /\ changes # None /\ changes' # None

\* a call of next() returns None or leaves less to iterate; no cursor moves
\* back, and a canonical event is yielded only by the one cursor that moved
\* forward
CallConsumes ==
    NextCalled =>
        /\ reader_pc' = "end" \/ Remaining(changes'[1]) < Remaining(changes[1])
        /\ Remaining(changes'[1]) >= 0
        /\ \A c \in 1..Len(changes[1].cursors) :
               changes'[1].cursors[c].offset >= changes[1].cursors[c].offset
        /\ Len(yielded') <= Len(yielded) + 1
        /\ (Len(yielded') > Len(yielded) /\ Last(yielded').alias_of = None) =>
               \A c \in 1..Len(changes[1].cursors) :
                   (changes'[1].cursors[c].offset > changes[1].cursors[c].offset)
                       <=> (changes[1].cursors[c].handle = Last(yielded').handle)

\* no handle has more events of its own than its cursor has read markers
EventsWithinMarkers ==
    changes # None =>
        \A c \in 1..Len(changes[1].cursors) :
            Len(CanonicalEventsOf(changes[1].cursors[c].handle))
                <= Len(MarkerIndexes(SubSeq(changes[1].cursors[c].data, 1,
                                            changes[1].cursors[c].offset)))

\* C28: on every parsed block (chains with delta-0 markers that put a cursor
\* back into the current time slot and chains that produce errors included),
\* a caller that keeps calling next() on VcBlockChanges is returned None
\* after finitely many calls: what is left to iterate is a natural number and
\* every call that does not return None leaves strictly less of it. Every
\* marker is consumed at most once: no cursor moves back, and a handle never
\* has more events of its own than markers read
IteratorTerminates_C28 ==
    /\ [][CallConsumes]_vars
    /\ []EventsWithinMarkers

\* the iteration reached None on a block whose handle 1 has two markers in the
\* first time slot and one in the second (all three yielded) and whose handle
\* 2 ends inside a varint (an error was returned on the way)
IteratorTerminates_C28_Witness ==
    /\ reader_pc = "end"
    /\ current_vc_block # None
    /\ CanonicalChains(current_vc_block[1]) = {1, 2}
    /\ current_vc_block[1].chains[1][1].payload = <<2, 2, 4>>
    /\ current_vc_block[1].chains[2][1].payload = <<2, 4, 128>>
    /\ Len(CanonicalEventsOf(1)) = 3
    /\ read_error # ""

\* ------------------------------------------- a reader on a tampered block
\* bytes with the big-endian u64 at first..first+7 replaced by value
PatchU64(bytes, first, value) ==
    SubSeq(bytes, 1, first - 1) \o U64BE(value) \o SubSeq(bytes, first + 8, Len(bytes))

\* the entries with the offset of the last Data entry moved up by shift
ShiftLastData(entries, shift) ==
    [i \in 1..Len(entries) |->
        IF entries[i].k = "Data" /\ DataAfter(entries, i) = {}
        THEN EntryData(entries[i].offset + shift)
        ELSE entries[i]]

\* a block in the layout of build_vc_block whose index places its last chain
\* shift bytes further, whose index length field is index_extra too large and
\* whose time_compressed_len field is time_extra too large
crafted_block(pack_type, inputs, shift, index_extra, time_extra) ==
    LET laid == ForeignChainsFrom(inputs, 1, <<>>, <<>>)
        index_bytes == encode_chain_index(ShiftLastData(laid.entries, shift))
        time_data == TimeDataFrom(ReadTimePoints, 1, 0, <<>>)
        time_encoding == encode_time_section(time_data.v, Len(ReadTimePoints), FALSE)
        payload == assemble_payload(ReadTimePoints[1], Last(ReadTimePoints), 0,
                       encode_frame_section(<<>>), 0, Len(inputs), pack_type,
                       laid.chain_buffer, index_bytes.v, time_encoding)
        index_length_pos == Len(payload) - 24 - Len(time_encoding.payload) - 8
    IN  VcBlockRecord(
            PatchU64(PatchU64(payload, index_length_pos + 1,
                              Len(index_bytes.v) + index_extra),
                     Len(payload) - 15, time_encoding.compressed_len + time_extra))

\* what a handle of a tampered block may be
CraftedInputs(pack_type) ==
    {InEmpty, InAlias(1), InChain(pack_type, <<2>>), InChain(pack_type, <<2, 2, 2>>)}

\* how far the last chain is moved: not at all, into itself, beyond the buffer
OffsetShifts == {0, 1, 8}

\* by how much the index length field is too large: nothing, one byte, into
\* the block header, beyond the start of the block
IndexExtras == {0, 1, 12, 60}

\* by how much time_compressed_len is too large: nothing, one byte, beyond the
\* start of the block
TimeExtras == {0, 1, 100}

\* a reader opened on one block, tampered with or not
InitBounds ==
    \E opts \in OptionSets :
        /\ WriterInit(opts)
        /\ \E inputs \in [1..MaxSlots -> CraftedInputs(chain_pack_type(opts))],
              shift \in OffsetShifts, index_extra \in IndexExtras,
              time_extra \in TimeExtras :
               source = Some(crafted_block(chain_pack_type(opts), inputs, shift,
                                           index_extra, time_extra))
        /\ position = 0
        /\ build = None
        /\ current_vc_block = None
        /\ changes = None
        /\ yielded = <<>>
        /\ reader_pc = "idle"
        /\ read_error = ""

\* a reader on every tampered block of MaxSlots handles
SpecBounds == InitBounds /\ [][NextReader]_vars

\* ------------------------------------------------------------------ C27
\* the sections that parse_vc_block has returned lie in this order in the
\* block: chain_start <= chain_end <= time_start <= trailer_start
SectionsOrdered(sections, payload_len) ==
    LET chain_end == sections.chain_start + Len(sections.chain_buffer)
        trailer_start == payload_len - 24
        time_start == trailer_start - sections.time_section.compressed_len
    IN  /\ sections.chain_start <= chain_end
        /\ chain_end + sections.header.index_length + 8 = time_start
        /\ chain_end <= time_start
        /\ time_start <= trailer_start

\* every slot lies in the chain buffer
SlotsInBuffer(index, chain_start, chain_buffer) ==
    \A i \in 1..Len(index) :
        index[i] # None =>
            /\ index[i][1].offset >= chain_start
            /\ index[i][1].length >= 0
            /\ index[i][1].offset - chain_start + index[i][1].length <= Len(chain_buffer)

\* parse_vc_block has returned Ok only with ordered sections and slots that lie
\* in the chain buffer
OkOnlyInBounds ==
    current_vc_block # None =>
        /\ SectionsOrdered(build[1].sections, Len(source[1].payload))
        /\ SlotsInBuffer(current_vc_block[1].index, build[1].sections.chain_start,
                         current_vc_block[1].chain_buffer)

\* C27: parse_vc_block returns Ok only if chain_start <= chain_end <=
\* time_start <= trailer_start and every returned slot has offset + length <=
\* the length of the chain buffer; a trailer, an index length or a Data offset
\* that points outside (a Data offset beyond the end of the chain buffer
\* included) is reported as an error value and never makes the call panic
SectionsInBounds_C27 ==
    /\ OkOnlyInBounds
    /\ reader_pc # "panicked"

\* whatever the block, the build without overflow checks returns an error
\* value or sections in bounds: there the length that wrapped is rejected by
\* build_chains
WrappingBuildInBounds ==
    LET block == parse_vc_block_in(source[1].payload, source[1].tag, 0,
                                   Len(source[1].payload), FALSE)
    IN  /\ ~IsPanic(block)
        /\ block.ok => SlotsInBuffer(block.v.index,
                           Len(source[1].payload) - 24
                               - block.v.time_section.compressed_len - 8
                               - block.v.header.index_length
                               - Len(block.v.chain_buffer),
                           block.v.chain_buffer)

====
